---------------------------- MODULE Spec2Model ----------------------------
(***************************************************************************)
(* Old Logan Capital: the stage classifier (WeinsteinService.analyzeStage) *)
(* and the seven-factor scorer (CANSLIMService.calculateScore) as a state  *)
(* machine over the caller's bar array.                                    *)
(*                                                                         *)
(* Numbers.  Prices, volumes and growth figures are integers (ticks); the  *)
(* JavaScript value NaN (also what isNaN() reports for a missing field) is *)
(* the sentinel NaN.  Every quotient the code forms is carried exactly, as *)
(* a fraction [n, d] with d > 0, and every threshold test of the code is   *)
(* the same test cross-multiplied.  The variance of returns needs integers *)
(* beyond the checker's machine width; it is carried as a pair of natural  *)
(* numbers in base-10000 digits (B-operators below).  Rounding of IEEE     *)
(* doubles is not modelled.                                                *)
(*                                                                         *)
(* Texts.  A description is the fixed wording of the code's template; the  *)
(* numerals interpolated by toFixed() are left out, but a toFixed() on a   *)
(* value that is not a number raises, as in the code.                      *)
(***************************************************************************)
EXTENDS Integers, Sequences, FiniteSets, TLC

VARIABLES
  historicalBars,   \* the caller's bar array; its bar objects are shared by every call
  currentPrice,     \* argument currentPrice of both operations
  volume,           \* argument volume of calculateScore
  fundamentals,     \* Alpha Vantage snapshot {earnings, overview} (argument 4)
  finnhub,          \* Finnhub snapshot {profile, financials, earnings} (argument 5)
  canslimScore,     \* outcome of the last calculateScore call
  weinsteinAnalysis,\* outcome of the last analyzeStage call
  analyzedBars,     \* the bar array as analyzeStage received it at its last call
  receivedBars,     \* the bar values as the data layer delivered them
  scoredSeries,     \* sortedBars of the last calculateScore call
  analyzedSeries,   \* the series the last analyzeStage call computed on
  pc,               \* where getMarketData stands: "idle", "fundamentals", "returned"
  attempted,        \* the provider calls made so far, in order, each with its outcome
  now,              \* the time, in seconds
  requests          \* the Alpha Vantage calls of one getFundamentals: where each stands

vars == <<historicalBars, currentPrice, volume, fundamentals, finnhub,
          canslimScore, weinsteinAnalysis, analyzedBars, receivedBars,
          scoredSeries, analyzedSeries, pc, attempted, now, requests>>

-----------------------------------------------------------------------------
(* JavaScript numbers                                                      *)

NaN == -1000000

\* a field that is absent (undefined, or the empty string of a text field)
Undefined == -1000001

\* a field that is null
Null == -1000002

\* a text that parseFloat() cannot read, such as "None"
NonNumeric == -1000003

\* isNaN(x): the argument goes through Number(), which takes undefined to NaN
\* and null to 0
isNaN(x) == x = NaN \/ x = Undefined

\* parseFloat(text)
parseFloat(text) == IF text = NonNumeric \/ text = Undefined THEN NaN ELSE text

\* x > y, x < y, x >= y, x <= y of JavaScript: false as soon as one side is NaN
Gt(x, y) == ~isNaN(x) /\ ~isNaN(y) /\ x > y
Lt(x, y) == ~isNaN(x) /\ ~isNaN(y) /\ x < y
Ge(x, y) == ~isNaN(x) /\ ~isNaN(y) /\ x >= y
Le(x, y) == ~isNaN(x) /\ ~isNaN(y) /\ x <= y

Abs(x) == IF x < 0 THEN -x ELSE x

\* the fraction n/d, d > 0
Frac(n, d) == [n |-> n, d |-> d]
Zero == Frac(0, 1)

\* fraction against an integer threshold
FGt(f, k) == f.n > k * f.d
FLt(f, k) == f.n < k * f.d
FGe(f, k) == f.n >= k * f.d
FAbs(f) == Frac(Abs(f.n), f.d)

RECURSIVE SumRange(_, _, _)
\* s[lo] + ... + s[hi], halving the range
SumRange(s, lo, hi) ==
  IF lo > hi THEN 0
  ELSE IF lo = hi THEN s[lo]
       ELSE LET mid == (lo + hi) \div 2
            IN SumRange(s, lo, mid) + SumRange(s, mid + 1, hi)

\* seq.reduce((acc, x) => acc + x, 0) over a sequence of integers
SumOver(s) == SumRange(s, 1, Len(s))

\* array.slice(-k) for 0 < k <= length
LastK(s, k) == SubSeq(s, Len(s) - k + 1, Len(s))

Min(a, b) == IF a < b THEN a ELSE b
Max(a, b) == IF a > b THEN a ELSE b

\* array.filter(pred).length
CountIf(s, P(_)) == Cardinality({i \in 1..Len(s) : P(s[i])})

-----------------------------------------------------------------------------
(* Natural numbers of any size: little-endian digit sequences, base BASE,  *)
(* no leading zero digit; << >> is 0.                                      *)

BASE == 10000

RECURSIVE BNat(_)
BNat(x) == IF x = 0 THEN << >> ELSE <<x % BASE>> \o BNat(x \div BASE)

RECURSIVE BCarry(_, _, _)
\* the digits of sum coef[i] * BASE^(i-1) from position i on, coefficients
\* being any machine integers and the total a natural number
BCarry(coef, i, carry) ==
  IF i > Len(coef) THEN BNat(carry)
  ELSE LET t == coef[i] + carry
       IN <<t % BASE>> \o BCarry(coef, i + 1, t \div BASE)

RECURSIVE BStrip(_)
BStrip(a) ==
  IF a = << >> THEN a
  ELSE IF a[Len(a)] = 0 THEN BStrip(SubSeq(a, 1, Len(a) - 1)) ELSE a

BNorm(coef) == BStrip(BCarry(coef, 1, 0))

BDigit(a, i) == IF i <= Len(a) THEN a[i] ELSE 0

BAdd(a, b) == BNorm([i \in 1..Max(Len(a), Len(b)) |-> BDigit(a, i) + BDigit(b, i)])

\* a - b for a >= b
BSub(a, b) == BNorm([i \in 1..Max(Len(a), Len(b)) |-> BDigit(a, i) - BDigit(b, i)])

\* a * m for a machine integer 0 <= m < 200000
BMulSmall(a, m) == BNorm([i \in 1..Len(a) |-> a[i] * m])

RECURSIVE BConv(_, _, _, _, _)
\* sum of a[i] * b[k + 1 - i] for lo <= i <= hi, halving the range
BConv(a, b, k, lo, hi) ==
  IF lo > hi THEN 0
  ELSE IF lo = hi THEN a[lo] * b[k + 1 - lo]
       ELSE LET mid == (lo + hi) \div 2
            IN BConv(a, b, k, lo, mid) + BConv(a, b, k, mid + 1, hi)

\* a * b, one of the two of at most 21 digits
BMul(a, b) ==
  IF a = << >> \/ b = << >> THEN << >>
  ELSE BNorm([k \in 1..(Len(a) + Len(b) - 1) |->
                BConv(a, b, k, Max(1, k + 1 - Len(b)), Min(k, Len(a)))])

RECURSIVE BLessFrom(_, _, _)
BLessFrom(a, b, i) ==
  IF i = 0 THEN FALSE
  ELSE IF a[i] # b[i] THEN a[i] < b[i]
       ELSE BLessFrom(a, b, i - 1)

\* a < b
BLess(a, b) ==
  IF Len(a) # Len(b) THEN Len(a) < Len(b) ELSE BLessFrom(a, b, Len(a))

-----------------------------------------------------------------------------
(* Bars                                                                    *)

\* timestamp t: 0 is absent or empty (falsy), BadTime is a string that
\* new Date() cannot parse, a positive integer is the parsed time
BadTime == -1

Bar(o, h, l, c, v, t) == [nul |-> FALSE, o |-> o, h |-> h, l |-> l, c |-> c, v |-> v, t |-> t]

\* a null or undefined entry of the array
NullBar == [nul |-> TRUE, o |-> NaN, h |-> NaN, l |-> NaN, c |-> NaN, v |-> NaN, t |-> 0]

\* new Date(t).getTime()
getTime(t) == IF t = BadTime THEN NaN ELSE t


RECURSIVE InsertByTime(_, _)
\* one step of the stable sort: x goes after the last element that does not
\* compare greater than x; the comparator answers 0 when either time is NaN
InsertByTime(sorted, x) ==
  IF sorted = << >> THEN <<x>>
  ELSE LET y == sorted[Len(sorted)]
           timeA == getTime(y.t)
           timeB == getTime(x.t)
           cmp == IF isNaN(timeA) \/ isNaN(timeB) THEN 0 ELSE timeA - timeB
       IN IF cmp > 0
          THEN InsertByTime(SubSeq(sorted, 1, Len(sorted) - 1), x) \o <<y>>
          ELSE sorted \o <<x>>

RECURSIVE SortPrefix(_, _)
SortPrefix(s, i) == IF i = 0 THEN << >> ELSE InsertByTime(SortPrefix(s, i - 1), s[i])

\* variant of sortedBarsOf: the bars in the order they came in
sortedBarsOfAsGiven(validBars) == validBars

\* validBars.every(b => b.t) ? [...validBars].sort(byTime) : [...validBars]
sortedBarsOf(validBars) ==
  IF \A i \in 1..Len(validBars) : validBars[i].t # 0
  THEN SortPrefix(validBars, Len(validBars))
  ELSE validBars

\* the comparator is consistent on the bars: equal-comparing is transitive.
\* A time that does not parse compares equal to every other, so the bars
\* that parse must then all carry one time.
consistentComparator(validBars) ==
  \/ \A i \in 1..Len(validBars) : ~isNaN(getTime(validBars[i].t))
  \/ \A i, j \in 1..Len(validBars) :
       (~isNaN(getTime(validBars[i].t)) /\ ~isNaN(getTime(validBars[j].t)))
         => validBars[i].t = validBars[j].t

\* the arrangements of the elements of s
Arrangements(s) ==
  LET n == Len(s)
  IN { [i \in 1..n |-> s[p[i]]] :
         p \in {q \in [1..n -> 1..n] : \A i, j \in 1..n : i # j => q[i] # q[j]} }

\* what [...validBars].sort(byTime) may leave behind: Array.prototype.sort is
\* a stable sort for a consistent comparator; for an inconsistent one the
\* order is implementation-defined
sortOutcomes(validBars) ==
  IF \E i \in 1..Len(validBars) : validBars[i].t = 0 THEN {validBars}
  ELSE IF consistentComparator(validBars) THEN {sortedBarsOf(validBars)}
  ELSE {sortedBarsOf(validBars)} \cup Arrangements(validBars)

closes(bars) == [i \in 1..Len(bars) |-> bars[i].c]

-----------------------------------------------------------------------------
(* WeinsteinService                                                        *)

\* variant of calculate30WeekMA: an average of however few bars there are
calculate30WeekMAOfAny(bars) ==
  LET relevantBars == LastK(bars, Min(150, Len(bars)))
      sum == SumOver(closes(relevantBars))
  IN Frac(sum, Len(relevantBars))

calculate30WeekMA(bars) ==
  IF Len(bars) < 10 THEN Zero
  ELSE LET relevantBars == LastK(bars, Min(150, Len(bars)))
           sum == SumOver(closes(relevantBars))
       IN Frac(sum, Len(relevantBars))

RECURSIVE ProdExcept(_, _, _, _)
\* the product of cs[lo..hi] without cs[skip], halving the range
ProdExcept(cs, lo, hi, skip) ==
  IF lo > hi THEN BNat(1)
  ELSE IF lo = hi THEN (IF lo = skip THEN BNat(1) ELSE BNat(cs[lo]))
       ELSE LET mid == (lo + hi) \div 2
            IN BMul(ProdExcept(cs, lo, mid, skip), ProdExcept(cs, mid + 1, hi, skip))

RECURSIVE BSumOver(_, _, _, _)
\* the sum of term[i] over the indices lo <= i <= hi that are in S
BSumOver(term, S, lo, hi) ==
  IF lo > hi THEN << >>
  ELSE IF lo = hi THEN (IF lo \in S THEN term[lo] ELSE << >>)
       ELSE LET mid == (lo + hi) \div 2
            IN BAdd(BSumOver(term, S, lo, mid), BSumOver(term, S, mid + 1, hi))

\* The variance of the returns of the trailing min(20, length) bars, as the
\* exact fraction num/den; the code's result is Math.sqrt(variance) * 100.
\* With D the product of the closes that are divisors, return i is
\* (c[i] - c[i-1]) / c[i-1] = sign * k[i] / D, return 1 is 0, and
\* variance = (n * sum k^2 - (sum +-k)^2) / (D * n)^2.
calculateVolatility(bars) ==
  IF Len(bars) < 5 THEN [num |-> << >>, den |-> BNat(1)]
  ELSE LET recentBars == LastK(bars, Min(20, Len(bars)))
           n == Len(recentBars)
           cs == closes(recentBars)
           D == ProdExcept(cs, 1, n - 1, 0)
           k == [i \in 1..n |->
                   IF i = 1 THEN << >>
                   ELSE BMulSmall(ProdExcept(cs, 1, n - 1, i - 1), Abs(cs[i] - cs[i - 1]))]
           pos == BSumOver(k, {i \in 2..n : cs[i] > cs[i - 1]}, 1, n)
           neg == BSumOver(k, {i \in 2..n : cs[i] < cs[i - 1]}, 1, n)
           absSum == IF BLess(pos, neg) THEN BSub(neg, pos) ELSE BSub(pos, neg)
           sq == [i \in 1..n |-> LET ki == k[i] IN BMul(ki, ki)]
           sumSq == BSumOver(sq, 1..n, 1, n)
       IN [num |-> BSub(BMulSmall(sumSq, n), BMul(absSum, absSum)),
           den |-> BMulSmall(BMulSmall(BMul(D, D), n), n)]

\* Math.sqrt(variance) * 100 > tenths / 10, for tenths = 30 and 15:
\* variance * 10000 * 100 > tenths^2
volatilityAbove(variance, tenths) ==
  BLess(BMulSmall(variance.den, tenths * tenths),
        BMulSmall(BMulSmall(variance.num, 10000), 100))

volatilityLevelOf(variance) ==
  IF volatilityAbove(variance, 30) THEN "High"
  ELSE IF volatilityAbove(variance, 15) THEN "Medium" ELSE "Low"

\* variant of analyzeTrend: a trend of however few bars there are
analyzeTrendOfAny(bars) ==
  LET startPrice == bars[1].c
      endPrice == bars[Len(bars)].c
  IN IF isNaN(startPrice) \/ startPrice = 0 THEN Zero
     ELSE Frac((endPrice - startPrice) * 100, startPrice)

\* variant of analyzeTrend: the size of the move without its direction
analyzeTrendMagnitude(bars) ==
  IF Len(bars) < 10 THEN Zero
  ELSE LET startPrice == bars[1].c
           endPrice == bars[Len(bars)].c
       IN IF isNaN(startPrice) \/ startPrice = 0 THEN Zero
          ELSE Frac(Abs(endPrice - startPrice) * 100, startPrice)

analyzeTrend(bars) ==
  IF Len(bars) < 10 THEN Zero
  ELSE LET startPrice == bars[1].c
           endPrice == bars[Len(bars)].c
       IN IF isNaN(startPrice) \/ startPrice = 0 THEN Zero
          ELSE Frac((endPrice - startPrice) * 100, startPrice)

getTrendStrength(bars, trend) ==
  IF FGt(FAbs(trend), 10) THEN "Strong"
  ELSE IF FGt(FAbs(trend), 5) THEN "Moderate" ELSE "Weak"

\* Math.max(...highs): NaN as soon as one high is NaN
maxHigh(bars) ==
  IF \E i \in 1..Len(bars) : isNaN(bars[i].h) THEN NaN
  ELSE CHOOSE m \in {bars[i].h : i \in 1..Len(bars)} :
         \A i \in 1..Len(bars) : bars[i].h <= m

isUpDay(b) == Gt(b.c, b.o)
isDownDay(b) == Lt(b.c, b.o)

\* variant of determineStage: the distribution test comes first
determineStageDistributionFirst(price, ma30, priceVsMA, trend, volatility, recentBars) ==
  LET upDays == CountIf(recentBars, isUpDay)
      downDays == CountIf(recentBars, isDownDay)
      recentHigh == maxHigh(recentBars)
      isNearHigh == ~isNaN(recentHigh) /\ price * 100 >= recentHigh * 95
  IN IF volatility = "High" /\ FGt(priceVsMA, -5)
        /\ isNearHigh /\ FLt(trend, 3) /\ FGt(trend, -3) THEN 3
     ELSE IF FGt(priceVsMA, 0) /\ FGt(trend, 2) /\ upDays * 10 > downDays * 12 THEN 2
     ELSE IF FLt(priceVsMA, 0) /\ FLt(trend, -2) /\ downDays * 10 > upDays * 12 THEN 4
     ELSE 1

\* variant of determineStage: an advance needs a trend above 3%
determineStageSteeper(price, ma30, priceVsMA, trend, volatility, recentBars) ==
  LET upDays == CountIf(recentBars, isUpDay)
      downDays == CountIf(recentBars, isDownDay)
      recentHigh == maxHigh(recentBars)
      isNearHigh == ~isNaN(recentHigh) /\ price * 100 >= recentHigh * 95
  IN IF FGt(priceVsMA, 0) /\ FGt(trend, 3) /\ upDays * 10 > downDays * 12 THEN 2
     ELSE IF FLt(priceVsMA, 0) /\ FLt(trend, -2) /\ downDays * 10 > upDays * 12 THEN 4
     ELSE IF volatility = "High" /\ FGt(priceVsMA, -5)
             /\ isNearHigh /\ FLt(trend, 3) /\ FGt(trend, -3) THEN 3
     ELSE 1

determineStage(price, ma30, priceVsMA, trend, volatility, recentBars) ==
  LET upDays == CountIf(recentBars, isUpDay)
      downDays == CountIf(recentBars, isDownDay)
      recentHigh == maxHigh(recentBars)
      \* currentPrice >= recentHigh * 0.95
      isNearHigh == ~isNaN(recentHigh) /\ price * 100 >= recentHigh * 95
  IN IF FGt(priceVsMA, 0) /\ FGt(trend, 2) /\ upDays * 10 > downDays * 12 THEN 2
     ELSE IF FLt(priceVsMA, 0) /\ FLt(trend, -2) /\ downDays * 10 > upDays * 12 THEN 4
     ELSE IF volatility = "High" /\ FGt(priceVsMA, -5)
             /\ isNearHigh /\ FLt(trend, 3) /\ FGt(trend, -3) THEN 3
     ELSE 1

getStageName(stage) ==
  CASE stage = 1 -> "Stage 1: Accumulation"
    [] stage = 2 -> "Stage 2: Advancing"
    [] stage = 3 -> "Stage 3: Distribution"
    [] stage = 4 -> "Stage 4: Declining"
    [] OTHER -> "Unknown Stage"

getStageDescription(stage, priceVsMA, trendStrength, barsAvailable) ==
  LET dataNote == IF barsAvailable < 150 THEN " (Based on N days of data)" ELSE ""
  IN CASE stage = 1 -> "Base building phase." \o dataNote
       [] stage = 2 -> "Uptrend phase." \o dataNote
       [] stage = 3 -> "Distribution phase." \o dataNote
       [] stage = 4 -> "Downtrend phase." \o dataNote
       [] OTHER -> "Unable to determine stage."

StageAnalysis(stage, stageName, description, ma, price, priceVsMA, trendStrength, volatility) ==
  [status |-> "returned", stage |-> stage, stageName |-> stageName,
   description |-> description, thirtyWeekMA |-> ma, currentPrice |-> price,
   priceVsMA |-> priceVsMA, trendStrength |-> trendStrength, volatility |-> volatility]

\* variant of isStageValid: a close of zero passes the filter
isStageValidOrZero(bar) == ~bar.nul /\ ~isNaN(bar.c) /\ bar.c >= 0

\* historicalBars.filter(bar => bar && !isNaN(bar.c) && bar.c > 0)
isStageValid(bar) == ~bar.nul /\ ~isNaN(bar.c) /\ bar.c > 0
stageValidBars(bars) == SelectSeq(bars, isStageValid)

\* variant of limitedDataAnalysis: a price equal to the average counts as above
limitedDataAnalysisInclusive(price, validBars) ==
  LET sum == SumOver(closes(validBars))
      avgPrice == Frac(sum, Len(validBars))
      priceVsMA == IF sum > 0
                   THEN Frac((price * Len(validBars) - sum) * 100, sum)
                   ELSE Zero
      isAbove == FGe(priceVsMA, 0)
  IN StageAnalysis(IF isAbove THEN 2 ELSE 4,
                   IF isAbove THEN "Stage 2: Advancing (Limited Data)"
                              ELSE "Stage 4: Declining (Limited Data)",
                   IF isAbove THEN "Limited data analysis. Price is above average."
                              ELSE "Limited data analysis. Price is below average.",
                   avgPrice, price, priceVsMA,
                   IF FGt(FAbs(priceVsMA), 5) THEN "Moderate" ELSE "Weak",
                   "Low")

\* fewer than 5 valid bars: the current price against the plain average
limitedDataAnalysis(price, validBars) ==
  LET sum == SumOver(closes(validBars))
      avgPrice == Frac(sum, Len(validBars))
      priceVsMA == IF sum > 0
                   THEN Frac((price * Len(validBars) - sum) * 100, sum)
                   ELSE Zero
      isAbove == FGt(priceVsMA, 0)
  IN StageAnalysis(IF isAbove THEN 2 ELSE 4,
                   IF isAbove THEN "Stage 2: Advancing (Limited Data)"
                              ELSE "Stage 4: Declining (Limited Data)",
                   IF isAbove THEN "Limited data analysis. Price is above average."
                              ELSE "Limited data analysis. Price is below average.",
                   avgPrice, price, priceVsMA,
                   IF FGt(FAbs(priceVsMA), 5) THEN "Moderate" ELSE "Weak",
                   "Low")

\* variant of dataQuality: exactly 150 bars still count as an estimate
dataQualityBeyond(sortedBars) == IF Len(sortedBars) > 150 THEN "" ELSE " (Estimated)"

\* sortedBars.length >= 150 ? '' : ' (Estimated)'
dataQuality(sortedBars) == IF Len(sortedBars) >= 150 THEN "" ELSE " (Estimated)"

\* analyzeStage, given what the sort leaves behind where it runs
analyzeStageOn(price, bars, sorted) ==
  IF Len(bars) = 0
  THEN StageAnalysis(1, "Insufficient Data", "No historical data available for stage analysis",
                     Zero, price, Zero, "Weak", "Low")
  ELSE
    LET validBars == stageValidBars(bars) IN
    IF Len(validBars) = 0
    THEN StageAnalysis(1, "Insufficient Data", "No valid price data available for stage analysis",
                       Zero, price, Zero, "Weak", "Low")
    ELSE IF Len(validBars) < 5
    THEN limitedDataAnalysis(price, validBars)
    ELSE LET sortedBars == sorted
             thirtyWeekMA == calculate30WeekMA(sortedBars)
             priceVsMA == IF thirtyWeekMA.n > 0
                          THEN Frac((price * thirtyWeekMA.d - thirtyWeekMA.n) * 100, thirtyWeekMA.n)
                          ELSE Zero
             volatility == calculateVolatility(sortedBars)
             trendBars == LastK(sortedBars, Min(30, Len(sortedBars)))
             trend == analyzeTrend(trendBars)
             trendStrength == getTrendStrength(trendBars, trend)
             volatilityLevel == volatilityLevelOf(volatility)
             stage == determineStage(price, thirtyWeekMA, priceVsMA, trend, volatilityLevel, trendBars)
         IN StageAnalysis(stage, getStageName(stage) \o dataQuality(sortedBars),
                          getStageDescription(stage, priceVsMA, trendStrength, Len(sortedBars)),
                          thirtyWeekMA, price, priceVsMA, trendStrength, volatilityLevel)

analyzeStage(price, bars) ==
  analyzeStageOn(price, bars, sortedBarsOf(stageValidBars(bars)))

\* the series analyzeStage computes on: validBars, sorted once there are 5
stageSeriesOutcomes(bars) ==
  LET validBars == stageValidBars(bars)
  IN IF Len(validBars) < 5 THEN {validBars} ELSE sortOutcomes(validBars)

-----------------------------------------------------------------------------
(* CANSLIMService                                                          *)

Factor(score, maxScore, description) ==
  [score |-> score, maxScore |-> maxScore, description |-> description]

\* what a factor leaves behind when it raises instead of returning
TypeError == Factor(NaN, NaN, "TypeError: Cannot read properties of null (reading 'toFixed')")

\* a / b > c / d and a / b >= k for fractions
FracGt(f, g) == f.n * g.d > g.n * f.d

\* the tiers shared by the earnings and the price-momentum scorers:
\* >= 25 -> 15, >= 15 -> 12, >= 5 -> 8, >= 0 -> 5, else 2
growthTier(percent, strong, good, moderate, weak, negative) ==
  IF FGe(percent, 25) THEN Factor(15, 15, strong)
  ELSE IF FGe(percent, 15) THEN Factor(12, 15, good)
  ELSE IF FGe(percent, 5) THEN Factor(8, 15, moderate)
  ELSE IF FGe(percent, 0) THEN Factor(5, 15, weak)
  ELSE Factor(2, 15, negative)

\* ((currentEPS - previousEPS) / Math.abs(previousEPS)) * 100
epsGrowthPercent(currentEPS, previousEPS) ==
  Frac((currentEPS - previousEPS) * 100, Abs(previousEPS))

scoreCurrentQuarterlyEarningsWithData(earnings) ==
  IF Len(earnings.quarterlyEarnings) < 2
  THEN Factor(0, 15, "Insufficient quarterly earnings data")
  ELSE LET currentEPS == parseFloat(earnings.quarterlyEarnings[1])
           previousEPS == parseFloat(earnings.quarterlyEarnings[2])
       IN IF isNaN(currentEPS) \/ isNaN(previousEPS) \/ previousEPS = 0
          THEN Factor(0, 15, "Invalid earnings data")
          ELSE growthTier(epsGrowthPercent(currentEPS, previousEPS),
                          "Strong quarterly EPS growth", "Good quarterly EPS growth",
                          "Moderate quarterly EPS growth", "Weak quarterly EPS growth",
                          "Negative quarterly EPS growth")

\* ((endPrice - startPrice) / startPrice) * 100 for startPrice > 0
changePercentOf(startPrice, endPrice) == Frac((endPrice - startPrice) * 100, startPrice)

scoreCurrentQuarterlyEarnings(bars) ==
  IF Len(bars) < 1 THEN Factor(0, 15, "Insufficient data for quarterly analysis")
  ELSE LET recentBars == LastK(bars, Min(60, Len(bars))) IN
    IF Len(recentBars) = 1
    THEN LET bar == recentBars[1]
             \* bar.c > bar.o ? ((bar.c - bar.o) / bar.o) * 100 : 0, then > 0
             positive == Gt(bar.c, bar.o) /\ bar.o >= 0
         IN Factor(IF positive THEN 5 ELSE 2, 15,
                   IF positive THEN "Single day data: positive price movement"
                               ELSE "Single day data: negative price movement")
    ELSE LET startPrice == recentBars[1].c
             endPrice == recentBars[Len(recentBars)].c
         IN IF isNaN(startPrice) \/ startPrice = 0
            THEN Factor(0, 15, "Invalid price data")
            ELSE growthTier(changePercentOf(startPrice, endPrice),
                            "Strong momentum", "Good momentum", "Moderate momentum",
                            "Weak momentum", "Negative momentum")

scoreAnnualEarningsGrowthWithData(earnings) ==
  IF Len(earnings.annualEarnings) < 2
  THEN Factor(0, 15, "Insufficient annual earnings data (need at least 2 years)")
  ELSE LET currentEPS == parseFloat(earnings.annualEarnings[1])
           previousEPS == parseFloat(earnings.annualEarnings[2])
       IN IF isNaN(currentEPS) \/ isNaN(previousEPS) \/ previousEPS = 0
          THEN Factor(0, 15, "Invalid annual earnings data")
          ELSE growthTier(epsGrowthPercent(currentEPS, previousEPS),
                          "Strong annual EPS growth", "Good annual EPS growth",
                          "Moderate annual EPS growth", "Weak annual EPS growth",
                          "Negative annual EPS growth")

scoreAnnualEarningsGrowth(bars) ==
  IF Len(bars) < 1 THEN Factor(0, 15, "Insufficient data for annual analysis")
  ELSE LET annualBars == LastK(bars, Min(252, Len(bars))) IN
    IF Len(annualBars) < 2
    THEN Factor(5, 15, "Insufficient data for annual analysis (single day)")
    ELSE growthTier(changePercentOf(annualBars[1].c, annualBars[Len(annualBars)].c),
                    "Strong growth", "Good growth", "Moderate growth",
                    "Weak growth", "Negative growth")

\* Math.max(...bars.map(b => b.h)) over bars whose highs are numbers
highestHigh(bars) ==
  CHOOSE m \in {bars[i].h : i \in 1..Len(bars)} : \A i \in 1..Len(bars) : bars[i].h <= m

hasHigh(b) == ~b.nul /\ ~isNaN(b.h) /\ b.h > 0

scoreNewHighs(price, bars) ==
  IF Len(bars) < 1 THEN Factor(0, 15, "Insufficient data")
  ELSE LET validBars == SelectSeq(bars, hasHigh) IN
    IF Len(validBars) < 1 THEN Factor(0, 15, "Invalid high price data")
    ELSE IF Len(validBars) = 1
    THEN LET high == validBars[1].h
         IN IF (price - high) * 100 >= -5 * high
            THEN Factor(12, 15, "Trading near high (limited data)")
            ELSE Factor(6, 15, "Currently below high")
    ELSE LET allTimeHigh == highestHigh(validBars)
             recentHigh == highestHigh(LastK(validBars, Min(60, Len(validBars))))
             isNearHigh == (price - allTimeHigh) * 100 >= -5 * allTimeHigh
         IN IF isNearHigh /\ price * 100 >= recentHigh * 95
            THEN Factor(15, 15, "Trading near new highs")
            ELSE IF isNearHigh THEN Factor(12, 15, "Approaching new highs")
            ELSE IF (price - allTimeHigh) * 100 >= -15 * allTimeHigh
                 THEN Factor(8, 15, "Moderate distance from highs")
            ELSE Factor(4, 15, "Well below highs")

volumes(bars) == [i \in 1..Len(bars) |-> bars[i].v]

hasVolume(b) == ~b.nul /\ ~isNaN(b.v) /\ b.v >= 0

scoreSupplyAndDemand(vol, bars) ==
  IF Len(bars) < 1 THEN Factor(0, 10, "Insufficient data")
  ELSE LET recentBars == SelectSeq(LastK(bars, Min(20, Len(bars))), hasVolume) IN
    IF Len(recentBars) = 0 THEN Factor(5, 10, "No volume data available")
    ELSE LET n == Len(recentBars)
             sum == SumOver(volumes(recentBars))     \* avgVolume = sum / n
         IN IF sum = 0 THEN Factor(0, 10, "Zero average volume")
            ELSE LET upDays == SelectSeq(recentBars, isUpDay)
                     upSum == SumOver(volumes(upDays))
                     \* avgUpVolume > avgVolume * 1.2
                     upHeavy == Len(upDays) > 0 /\ upSum * n * 10 > sum * Len(upDays) * 12
                 IN IF vol * n * 10 >= sum * 15 /\ upHeavy
                    THEN Factor(10, 10, "Strong demand, high volume on advances")
                    ELSE IF vol * n * 10 >= sum * 12 THEN Factor(8, 10, "Good volume activity")
                    ELSE IF vol * n * 10 >= sum * 8 THEN Factor(6, 10, "Average volume")
                    ELSE Factor(3, 10, "Low volume, weak demand")

\* variant of scoreSupplyAndDemandWithData: the boost is not capped at 10
scoreSupplyAndDemandWithDataUncapped(vol, bars, sharesOutstanding) ==
  LET shares == parseFloat(sharesOutstanding) IN
  IF isNaN(shares) \/ shares <= 0 THEN scoreSupplyAndDemand(vol, bars)
  ELSE LET \* sharesInMillions = shares / 1000000 against 50, 200, 500
           base == IF shares < 50 * 1000000 THEN 10
                   ELSE IF shares < 200 * 1000000 THEN 8
                   ELSE IF shares < 500 * 1000000 THEN 6 ELSE 3
           text == IF shares < 50 * 1000000 THEN "Excellent: shares outstanding (low float)"
                   ELSE IF shares < 200 * 1000000 THEN "Good: shares outstanding"
                   ELSE IF shares < 500 * 1000000 THEN "Moderate: shares outstanding"
                   ELSE "High float: shares outstanding"
           recentBars == LastK(bars, Min(20, Len(bars)))
           n == Len(recentBars)
           sum == SumOver(volumes(recentBars))
           \* volume / avgVolume >= 1.5; a zero avgVolume makes the quotient
           \* Infinity for a positive volume and NaN for a zero one
           highVolume == IF sum = 0 THEN vol > 0 ELSE vol * n * 10 >= sum * 15
       IN IF Len(bars) >= 2 /\ highVolume
          THEN Factor(base + 1, 10, text \o ", strong volume activity")
          ELSE Factor(base, 10, text)

scoreSupplyAndDemandWithData(vol, bars, sharesOutstanding) ==
  LET shares == parseFloat(sharesOutstanding) IN
  IF isNaN(shares) \/ shares <= 0 THEN scoreSupplyAndDemand(vol, bars)
  ELSE LET \* sharesInMillions = shares / 1000000 against 50, 200, 500
           base == IF shares < 50 * 1000000 THEN 10
                   ELSE IF shares < 200 * 1000000 THEN 8
                   ELSE IF shares < 500 * 1000000 THEN 6 ELSE 3
           text == IF shares < 50 * 1000000 THEN "Excellent: shares outstanding (low float)"
                   ELSE IF shares < 200 * 1000000 THEN "Good: shares outstanding"
                   ELSE IF shares < 500 * 1000000 THEN "Moderate: shares outstanding"
                   ELSE "High float: shares outstanding"
           recentBars == LastK(bars, Min(20, Len(bars)))
           n == Len(recentBars)
           sum == SumOver(volumes(recentBars))
           \* volume / avgVolume >= 1.5; a zero avgVolume makes the quotient
           \* Infinity for a positive volume and NaN for a zero one
           highVolume == IF sum = 0 THEN vol > 0 ELSE vol * n * 10 >= sum * 15
       IN IF Len(bars) >= 2 /\ highVolume
          THEN Factor(Min(10, base + 1), 10, text \o ", strong volume activity")
          ELSE Factor(base, 10, text)

scoreLeaderOrLaggard(bars) ==
  IF Len(bars) < 2
  THEN IF Len(bars) = 1
       THEN Factor(5, 10, "Insufficient data for relative performance (single day)")
       ELSE Factor(0, 10, "Insufficient data")
  ELSE LET halfLength == Max(1, Len(bars) \div 2)
           recentBars == LastK(bars, halfLength)
           earlierBars == SubSeq(bars, 1, Len(bars) - halfLength)
       IN IF Len(recentBars) < 2 \/ isNaN(recentBars[1].c) \/ recentBars[1].c = 0
          THEN Factor(0, 10, "Invalid recent price data")
          ELSE LET recentReturn == changePercentOf(recentBars[1].c, recentBars[Len(recentBars)].c)
                   earlierReturn == IF Len(earlierBars) >= 2 /\ earlierBars[1].c > 0
                                    THEN changePercentOf(earlierBars[1].c,
                                                         earlierBars[Len(earlierBars)].c)
                                    ELSE Zero
               IN IF FGt(recentReturn, 10) /\ FracGt(recentReturn, earlierReturn)
                  THEN Factor(10, 10, "Market leader - strong outperformance")
                  ELSE IF FGt(recentReturn, 5) THEN Factor(8, 10, "Good relative performance")
                  ELSE IF FGt(recentReturn, 0) THEN Factor(6, 10, "Moderate performance")
                  ELSE Factor(3, 10, "Laggard - underperforming")

\* Math.ceil(k * (n / 20))
ceilScaled(k, n) == (k * n + 19) \div 20

scoreInstitutionalSponsorship(vol, bars) ==
  IF Len(bars) < 1 THEN Factor(0, 10, "Insufficient data")
  ELSE LET recentBars == SelectSeq(LastK(bars, Min(20, Len(bars))), hasVolume) IN
    IF Len(recentBars) = 0 THEN Factor(0, 10, "No valid volume data")
    ELSE LET n == Len(recentBars)
             sum == SumOver(volumes(recentBars))
             \* b.v > avgVolume * 1.5
             highVolumeDays == Cardinality({i \in 1..n : recentBars[i].v * n * 10 > sum * 15})
         IN IF sum = 0 THEN Factor(0, 10, "Zero average volume")
            ELSE IF highVolumeDays >= ceilScaled(8, n) /\ vol * n > sum
                 THEN Factor(10, 10, "Strong institutional interest")
            ELSE IF highVolumeDays >= ceilScaled(5, n)
                 THEN Factor(8, 10, "Moderate institutional activity")
            ELSE IF highVolumeDays >= ceilScaled(3, n)
                 THEN Factor(6, 10, "Some institutional interest")
            ELSE Factor(3, 10, "Limited institutional sponsorship")

hasClose(b) == ~b.nul /\ ~isNaN(b.c) /\ b.c > 0

scoreMarketDirection(bars) ==
  IF Len(bars) < 2
  THEN IF Len(bars) = 1
       THEN Factor(IF isUpDay(bars[1]) THEN 6 ELSE 4, 10,
                   IF isUpDay(bars[1]) THEN "Single day: up day (limited data)"
                                       ELSE "Single day: down day (limited data)")
       ELSE Factor(0, 10, "Insufficient data")
  ELSE LET recentBars == SelectSeq(LastK(bars, Min(20, Len(bars))), hasClose) IN
    IF Len(recentBars) < 2 THEN Factor(0, 10, "Invalid price data")
    ELSE LET trend == changePercentOf(recentBars[1].c, recentBars[Len(recentBars)].c)
             upDays == CountIf(recentBars, isUpDay)
             downDays == CountIf(recentBars, isDownDay)
         IN IF FGt(trend, 5) /\ upDays * 10 > downDays * 15 THEN Factor(10, 10, "Strong uptrend")
            ELSE IF FGt(trend, 2) /\ upDays > downDays THEN Factor(8, 10, "Moderate uptrend")
            ELSE IF FGt(trend, 0) THEN Factor(6, 10, "Slight uptrend")
            ELSE IF FGt(trend, -5) THEN Factor(4, 10, "Sideways/weak trend")
            ELSE Factor(2, 10, "Downtrend")

(* Finnhub metrics are integers in hundredths (a growth of 24.99% is 2499), *)
(* or one of Undefined, Null, NaN.                                         *)

\* Number(x) for a metric: null is 0
toNumber(x) == IF x = Null THEN 0 ELSE IF x = Undefined THEN NaN ELSE x

\* a JavaScript value handed on as a growth figure: a number (as a fraction,
\* in percent), null or NaN
JNumber(f) == [kind |-> "number", f |-> f]
JOfMetric(x) ==
  IF x = Null THEN [kind |-> "null", f |-> Zero]
  ELSE IF isNaN(x) THEN [kind |-> "NaN", f |-> Zero]
  ELSE JNumber(Frac(x, 100))

\* growth >= k: null compares as 0, NaN never compares
JGe(g, k) == g.kind # "NaN" /\ FGe(g.f, k)

\* growth.toFixed(1) raises on null: null has no properties
toFixedRaises(g) == g.kind = "null"

\* Math.round(maxScore * tenths / 10), halves going up
roundTenths(maxScore, tenths) == (2 * maxScore * tenths + 10) \div 20

gradeEarningsGrowth(growth, label, maxScore) ==
  IF toFixedRaises(growth) THEN TypeError
  ELSE IF JGe(growth, 40) THEN Factor(maxScore, maxScore, "Excellent " \o label)
  ELSE IF JGe(growth, 25) THEN Factor(roundTenths(maxScore, 9), maxScore, "Strong " \o label)
  ELSE IF JGe(growth, 15) THEN Factor(roundTenths(maxScore, 7), maxScore, "Good " \o label)
  ELSE IF JGe(growth, 5) THEN Factor(roundTenths(maxScore, 5), maxScore, "Moderate " \o label)
  ELSE IF JGe(growth, 0) THEN Factor(roundTenths(maxScore, 3), maxScore, "Weak " \o label)
  ELSE Factor(roundTenths(maxScore, 1), maxScore, "Negative " \o label)

\* x is truthy: not undefined, null, NaN or 0
truthy(x) == x # Undefined /\ x # Null /\ x # NaN /\ x # 0

scoreCurrentQuarterlyEarningsWithFinnhub(financials, earnings) ==
  LET epsGrowthQtr == financials.metric.epsGrowthQuarterlyYoy IN
  IF epsGrowthQtr = Undefined \/ epsGrowthQtr = Null \/ isNaN(epsGrowthQtr)
  THEN IF Len(earnings) >= 2 /\ truthy(earnings[1]) /\ truthy(earnings[2])
       THEN gradeEarningsGrowth(JNumber(epsGrowthPercent(earnings[1], earnings[2])),
                                "Quarterly EPS", 15)
       ELSE Factor(0, 15, "N/A - Quarterly EPS data unavailable")
  ELSE gradeEarningsGrowth(JOfMetric(epsGrowthQtr), "Quarterly EPS YoY", 15)

scoreAnnualEarningsGrowthWithFinnhub(financials) ==
  LET metric == financials.metric
      usable(x) == x # Undefined /\ ~isNaN(x)
  IN IF usable(metric.epsGrowth3Y)
     THEN gradeEarningsGrowth(JOfMetric(metric.epsGrowth3Y), "3-Year EPS CAGR", 15)
     ELSE IF usable(metric.epsGrowth5Y)
     THEN gradeEarningsGrowth(JOfMetric(metric.epsGrowth5Y), "5-Year EPS CAGR", 15)
     ELSE IF usable(metric.epsGrowthTTMYoy)
     THEN gradeEarningsGrowth(JOfMetric(metric.epsGrowthTTMYoy), "TTM EPS YoY", 15)
     ELSE Factor(0, 15, "N/A - Annual EPS growth data unavailable")

\* metric['52WeekHigh'] is a price, in the ticks of the bars
scoreNewHighsWithFinnhub(price, financials) ==
  LET high52Week == financials.metric.high52Week IN
  IF ~truthy(high52Week) THEN Factor(0, 15, "N/A - 52-week high data unavailable")
  ELSE LET fromHigh == Frac((price - high52Week) * 100, high52Week)
       IN IF FGe(fromHigh, -2) THEN Factor(15, 15, "At/near 52-week high")
          ELSE IF FGe(fromHigh, -5) THEN Factor(12, 15, "Close to 52-week high")
          ELSE IF FGe(fromHigh, -15) THEN Factor(8, 15, "Moderate distance from high")
          ELSE IF FGe(fromHigh, -25) THEN Factor(5, 15, "Below 52-week high")
          ELSE Factor(2, 15, "Well below 52-week high")

\* profile.shareOutstanding is in millions of shares
scoreSupplyAndDemandWithFinnhub(vol, bars, shareOutstanding) ==
  IF ~truthy(shareOutstanding) \/ shareOutstanding <= 0
  THEN Factor(0, 10, "N/A - Shares outstanding data unavailable")
  ELSE IF shareOutstanding < 25 THEN Factor(10, 10, "Excellent: shares (micro-cap float)")
  ELSE IF shareOutstanding < 100 THEN Factor(8, 10, "Good: shares (small float)")
  ELSE IF shareOutstanding < 500 THEN Factor(6, 10, "Moderate: shares")
  ELSE IF shareOutstanding < 2000 THEN Factor(4, 10, "Large: shares")
  ELSE Factor(2, 10, "Very large: shares (mega-cap)")

\* relative strength in hundredths of a percent; every step formats the
\* figure with toFixed, which raises on null
scoreLeaderOrLaggardWithFinnhub(financials) ==
  LET relStrength52W == financials.metric.priceRelativeToSP50052Week
      returnDaily52W == financials.metric.priceReturnDaily52Week
  IN IF relStrength52W # Undefined /\ ~isNaN(relStrength52W)
     THEN IF relStrength52W = Null THEN TypeError     \* null >= 0 holds
          ELSE IF relStrength52W >= 3000 THEN Factor(10, 10, "Market leader vs S&P 500 (52W)")
          ELSE IF relStrength52W >= 1500 THEN Factor(8, 10, "Strong performer vs S&P 500 (52W)")
          ELSE IF relStrength52W >= 0 THEN Factor(6, 10, "Outperforming vs S&P 500 (52W)")
          ELSE IF relStrength52W >= -1500 THEN Factor(4, 10, "Underperforming vs S&P 500 (52W)")
          ELSE Factor(2, 10, "Laggard vs S&P 500 (52W)")
     ELSE IF returnDaily52W # Undefined /\ ~isNaN(returnDaily52W)
     THEN IF returnDaily52W = Null THEN TypeError     \* null >= 0 holds
          ELSE IF returnDaily52W >= 5000 THEN Factor(10, 10, "Strong (52W return)")
          ELSE IF returnDaily52W >= 2500 THEN Factor(8, 10, "Good (52W return)")
          ELSE IF returnDaily52W >= 0 THEN Factor(6, 10, "Positive (52W return)")
          ELSE IF returnDaily52W >= -2000 THEN Factor(4, 10, "Weak (52W return)")
          ELSE Factor(2, 10, "Poor (52W return)")
     ELSE Factor(0, 10, "N/A - Relative strength data unavailable")

scoreMarketDirectionWithFinnhub(financials) ==
  LET rel4W == financials.metric.priceRelativeToSP5004Week
      rel13W == financials.metric.priceRelativeToSP50013Week
      stockReturn == financials.metric.priceReturnDaily52Week
  IN IF rel4W # Undefined /\ rel13W # Undefined
     THEN \* avgRel = (rel4W + rel13W) / 2, in hundredths: twice avgRel is the sum
          LET nan == isNaN(toNumber(rel4W)) \/ isNaN(toNumber(rel13W))
              twice == toNumber(rel4W) + toNumber(rel13W)
          IN IF ~nan /\ twice >= 2 * 1000
                /\ stockReturn # Undefined /\ Gt(toNumber(stockReturn), 0)
             THEN Factor(10, 10, "Favorable: Stock vs market (avg 4W/13W)")
             ELSE IF ~nan /\ twice >= 0
             THEN Factor(8, 10, "Positive: Stock vs market (avg 4W/13W)")
             ELSE IF ~nan /\ twice >= -2 * 1000
             THEN Factor(5, 10, "Neutral: Stock vs market (avg 4W/13W)")
             ELSE Factor(3, 10, "Unfavorable: Stock vs market (avg 4W/13W)")
     ELSE IF stockReturn # Undefined /\ ~isNaN(stockReturn)
     THEN IF stockReturn = Null THEN TypeError    \* null > -10 holds, then null.toFixed
          ELSE IF stockReturn > 2000 THEN Factor(10, 10, "Strong momentum (52W)")
          ELSE IF stockReturn > 0 THEN Factor(7, 10, "Positive trend (52W)")
          ELSE IF stockReturn > -1000 THEN Factor(4, 10, "Weak trend (52W)")
          ELSE Factor(2, 10, "Downtrend (52W)")
     ELSE Factor(0, 10, "N/A - Market direction data unavailable")

getDefaultScore(reason) ==
  [status |-> "returned", overallGrade |-> "F",
   scores |-> [c |-> Factor(0, 15, reason), a |-> Factor(0, 15, reason),
               n |-> Factor(0, 15, reason), s |-> Factor(0, 10, reason),
               l |-> Factor(0, 10, reason), i |-> Factor(0, 10, reason),
               m |-> Factor(0, 10, reason)],
   totalScore |-> 0, maxTotalScore |-> 85]

FactorNames == {"c", "a", "n", "s", "l", "i", "m"}

\* variant of gradeOf: the grades B and C change places
gradeOfUnordered(totalScore, maxTotalScore) ==
  IF totalScore * 100 >= 85 * maxTotalScore THEN "A"
  ELSE IF totalScore * 100 >= 70 * maxTotalScore THEN "C"
  ELSE IF totalScore * 100 >= 55 * maxTotalScore THEN "B"
  ELSE IF totalScore * 100 >= 40 * maxTotalScore THEN "D"
  ELSE "F"

\* variant of gradeOf: a percentage on a threshold falls into the lower grade
gradeOfStrict(totalScore, maxTotalScore) ==
  IF totalScore * 100 > 85 * maxTotalScore THEN "A"
  ELSE IF totalScore * 100 > 70 * maxTotalScore THEN "B"
  ELSE IF totalScore * 100 > 55 * maxTotalScore THEN "C"
  ELSE IF totalScore * 100 > 40 * maxTotalScore THEN "D"
  ELSE "F"

\* percentage = (totalScore / maxTotalScore) * 100 against 85, 70, 55, 40
gradeOf(totalScore, maxTotalScore) ==
  IF totalScore * 100 >= 85 * maxTotalScore THEN "A"
  ELSE IF totalScore * 100 >= 70 * maxTotalScore THEN "B"
  ELSE IF totalScore * 100 >= 55 * maxTotalScore THEN "C"
  ELSE IF totalScore * 100 >= 40 * maxTotalScore THEN "D"
  ELSE "F"

\* variant of sumScores: the last factor is left out of the total
sumScoresWithoutLast(scores) ==
  scores.c.score + scores.a.score + scores.n.score + scores.s.score
    + scores.l.score + scores.i.score

\* Object.values(scores).reduce((sum, s) => sum + s.score, 0)
sumScores(scores) ==
  scores.c.score + scores.a.score + scores.n.score + scores.s.score
    + scores.l.score + scores.i.score + scores.m.score

sumMaxScores(scores) ==
  scores.c.maxScore + scores.a.maxScore + scores.n.maxScore + scores.s.maxScore
    + scores.l.maxScore + scores.i.maxScore + scores.m.maxScore

\* the tail of calculateScore: totals and grade, unless a factor raised
aggregate(scores) ==
  IF \E f \in FactorNames : scores[f] = TypeError
  THEN [status |-> "thrown"]
  ELSE [status |-> "returned",
        overallGrade |-> gradeOf(sumScores(scores), sumMaxScores(scores)),
        scores |-> scores,
        totalScore |-> sumScores(scores),
        maxTotalScore |-> sumMaxScores(scores)]

\* the filter callback of calculateScore on one bar: a kept bar is repaired
\* in place, a rejected one is left as it is
repairBar(bar) ==
  IF bar.nul \/ isNaN(bar.c) \/ bar.c <= 0 THEN bar
  ELSE [bar EXCEPT !.o = IF isNaN(@) THEN bar.c ELSE @,
                   !.h = IF isNaN(@) THEN bar.c ELSE @,
                   !.l = IF isNaN(@) THEN bar.c ELSE @,
                   !.v = IF isNaN(@) \/ @ < 0 THEN 0 ELSE @]

\* the caller's bars after the filter has run over them
repairedBars(bars) == [i \in 1..Len(bars) |-> repairBar(bars[i])]

\* validBars of calculateScore
scoreValidBars(bars) == SelectSeq(repairedBars(bars), hasClose)

\* validBars, sorted: what the seven factors are computed on
scoreBars(bars) == sortedBarsOf(scoreValidBars(bars))

\* calculateScore(currentPrice, historicalBars, volume, fundamentals): the
\* version that falls back on price and volume proxies
calculateScoreOn(price, bars, sorted, vol, fund) ==
  IF Len(bars) = 0 THEN getDefaultScore("No historical data available")
  ELSE LET sortedBars == sorted IN
    IF Len(sortedBars) = 0 THEN getDefaultScore("No valid price data available")
    ELSE aggregate(
      [c |-> IF fund.present /\ fund.earnings.present
             THEN scoreCurrentQuarterlyEarningsWithData(fund.earnings)
             ELSE scoreCurrentQuarterlyEarnings(sortedBars),
       a |-> IF fund.present /\ fund.earnings.present
             THEN scoreAnnualEarningsGrowthWithData(fund.earnings)
             ELSE scoreAnnualEarningsGrowth(sortedBars),
       n |-> scoreNewHighs(price, sortedBars),
       s |-> IF fund.present /\ fund.overview.present
                /\ fund.overview.SharesOutstanding # Undefined
             THEN scoreSupplyAndDemandWithData(vol, sortedBars, fund.overview.SharesOutstanding)
             ELSE scoreSupplyAndDemand(vol, sortedBars),
       l |-> scoreLeaderOrLaggard(sortedBars),
       i |-> scoreInstitutionalSponsorship(vol, sortedBars),
       m |-> scoreMarketDirection(sortedBars)])

calculateScore(price, bars, vol, fund) ==
  calculateScoreOn(price, bars, scoreBars(bars), vol, fund)

\* variant of calculateScoreWithFinnhubOn: factor C prefers the Alpha Vantage
\* earnings to the Finnhub metrics
calculateScoreWithFinnhubOnSecondaryFirst(price, bars, sorted, vol, fund, fh) ==
  IF Len(bars) = 0 THEN getDefaultScore("No historical data available")
  ELSE LET sortedBars == sorted
           hasMetric == fh.present /\ fh.financials.present
           hasEarnings == fund.present /\ fund.earnings.present
       IN
    IF Len(sortedBars) = 0 THEN getDefaultScore("No valid price data available")
    ELSE aggregate(
      [c |-> IF hasEarnings THEN scoreCurrentQuarterlyEarningsWithData(fund.earnings)
             ELSE IF hasMetric
             THEN scoreCurrentQuarterlyEarningsWithFinnhub(fh.financials, fh.earnings)
             ELSE Factor(0, 15, "N/A - No earnings data (configure Finnhub API)"),
       a |-> IF hasMetric THEN scoreAnnualEarningsGrowthWithFinnhub(fh.financials)
             ELSE IF hasEarnings THEN scoreAnnualEarningsGrowthWithData(fund.earnings)
             ELSE Factor(0, 15, "N/A - No earnings data (configure Finnhub API)"),
       n |-> IF hasMetric THEN scoreNewHighsWithFinnhub(price, fh.financials)
             ELSE scoreNewHighs(price, sortedBars),
       s |-> IF fh.present /\ fh.profile.present /\ truthy(fh.profile.shareOutstanding)
             THEN scoreSupplyAndDemandWithFinnhub(vol, sortedBars, fh.profile.shareOutstanding)
             ELSE IF fund.present /\ fund.overview.present
                     /\ fund.overview.SharesOutstanding # Undefined
             THEN scoreSupplyAndDemandWithData(vol, sortedBars, fund.overview.SharesOutstanding)
             ELSE Factor(0, 10, "N/A - No shares data (configure Finnhub API)"),
       l |-> IF hasMetric THEN scoreLeaderOrLaggardWithFinnhub(fh.financials)
             ELSE scoreLeaderOrLaggard(sortedBars),
       i |-> Factor(0, 10, "N/A - Institutional data requires premium API"),
       m |-> IF hasMetric THEN scoreMarketDirectionWithFinnhub(fh.financials)
             ELSE scoreMarketDirection(sortedBars)])

\* calculateScore(currentPrice, historicalBars, volume, fundamentals, finnhub):
\* the version that prefers Finnhub, then Alpha Vantage
calculateScoreWithFinnhubOn(price, bars, sorted, vol, fund, fh) ==
  IF Len(bars) = 0 THEN getDefaultScore("No historical data available")
  ELSE LET sortedBars == sorted
           hasMetric == fh.present /\ fh.financials.present
           hasEarnings == fund.present /\ fund.earnings.present
       IN
    IF Len(sortedBars) = 0 THEN getDefaultScore("No valid price data available")
    ELSE aggregate(
      [c |-> IF hasMetric
             THEN scoreCurrentQuarterlyEarningsWithFinnhub(fh.financials, fh.earnings)
             ELSE IF hasEarnings THEN scoreCurrentQuarterlyEarningsWithData(fund.earnings)
             ELSE Factor(0, 15, "N/A - No earnings data (configure Finnhub API)"),
       a |-> IF hasMetric THEN scoreAnnualEarningsGrowthWithFinnhub(fh.financials)
             ELSE IF hasEarnings THEN scoreAnnualEarningsGrowthWithData(fund.earnings)
             ELSE Factor(0, 15, "N/A - No earnings data (configure Finnhub API)"),
       n |-> IF hasMetric THEN scoreNewHighsWithFinnhub(price, fh.financials)
             ELSE scoreNewHighs(price, sortedBars),
       s |-> IF fh.present /\ fh.profile.present /\ truthy(fh.profile.shareOutstanding)
             THEN scoreSupplyAndDemandWithFinnhub(vol, sortedBars, fh.profile.shareOutstanding)
             ELSE IF fund.present /\ fund.overview.present
                     /\ fund.overview.SharesOutstanding # Undefined
             THEN scoreSupplyAndDemandWithData(vol, sortedBars, fund.overview.SharesOutstanding)
             ELSE Factor(0, 10, "N/A - No shares data (configure Finnhub API)"),
       l |-> IF hasMetric THEN scoreLeaderOrLaggardWithFinnhub(fh.financials)
             ELSE scoreLeaderOrLaggard(sortedBars),
       i |-> Factor(0, 10, "N/A - Institutional data requires premium API"),
       m |-> IF hasMetric THEN scoreMarketDirectionWithFinnhub(fh.financials)
             ELSE scoreMarketDirection(sortedBars)])

calculateScoreWithFinnhub(price, bars, vol, fund, fh) ==
  calculateScoreWithFinnhubOn(price, bars, scoreBars(bars), vol, fund, fh)

-----------------------------------------------------------------------------
(* Inputs                                                                  *)

\* no call of the operation has been made yet
NoResult == [status |-> "none"]

\* fundamentals: { earnings?: EarningsData, overview?: CompanyOverview };
\* reportedEPS in hundredths, SharesOutstanding as a share count
NoEarnings == [present |-> FALSE, quarterlyEarnings |-> << >>, annualEarnings |-> << >>]
NoOverview == [present |-> FALSE, SharesOutstanding |-> Undefined]
NoFundamentals == [present |-> FALSE, earnings |-> NoEarnings, overview |-> NoOverview]

Earnings(quarterly, annual) ==
  [present |-> TRUE, quarterlyEarnings |-> quarterly, annualEarnings |-> annual]

Overview(shares) == [present |-> TRUE, SharesOutstanding |-> shares]

Fundamentals(earnings, overview) ==
  [present |-> TRUE, earnings |-> earnings, overview |-> overview]

\* FinnhubFundamentals: { profile | null, financials | null, earnings | null }
NoMetric ==
  [epsGrowthQuarterlyYoy |-> Undefined, epsGrowth3Y |-> Undefined,
   epsGrowth5Y |-> Undefined, epsGrowthTTMYoy |-> Undefined,
   high52Week |-> Undefined, priceRelativeToSP50052Week |-> Undefined,
   priceReturnDaily52Week |-> Undefined, priceRelativeToSP5004Week |-> Undefined,
   priceRelativeToSP50013Week |-> Undefined]

NoProfile == [present |-> FALSE, shareOutstanding |-> Undefined]
Profile(shares) == [present |-> TRUE, shareOutstanding |-> shares]
NoFinancials == [present |-> FALSE, metric |-> NoMetric]
Financials(metric) == [present |-> TRUE, metric |-> metric]

NoFinnhub ==
  [present |-> FALSE, profile |-> NoProfile, financials |-> NoFinancials, earnings |-> << >>]

Finnhub(profile, financials, earnings) ==
  [present |-> TRUE, profile |-> profile, financials |-> financials, earnings |-> earnings]

-----------------------------------------------------------------------------
(* The display layer's calls: CANSLIMService.calculateScore (both          *)
(* versions) and WeinsteinService.analyzeStage, each on the same bar       *)
(* objects.                                                                *)

CalculateScore ==
  \E sorted \in sortOutcomes(scoreValidBars(historicalBars)) :
    /\ canslimScore' = calculateScoreOn(currentPrice, historicalBars, sorted, volume,
                                        fundamentals)
    /\ scoredSeries' = sorted
    /\ historicalBars' = repairedBars(historicalBars)
    /\ UNCHANGED <<currentPrice, volume, fundamentals, finnhub, weinsteinAnalysis,
                   analyzedBars, receivedBars, analyzedSeries, pc, attempted,
                   now, requests>>

CalculateScoreWithFinnhub ==
  \E sorted \in sortOutcomes(scoreValidBars(historicalBars)) :
    /\ canslimScore' = calculateScoreWithFinnhubOn(currentPrice, historicalBars, sorted,
                                                   volume, fundamentals, finnhub)
    /\ scoredSeries' = sorted
    /\ historicalBars' = repairedBars(historicalBars)
    /\ UNCHANGED <<currentPrice, volume, fundamentals, finnhub, weinsteinAnalysis,
                   analyzedBars, receivedBars, analyzedSeries, pc, attempted,
                   now, requests>>

AnalyzeStage ==
  \E sorted \in stageSeriesOutcomes(historicalBars) :
    /\ weinsteinAnalysis' = analyzeStageOn(currentPrice, historicalBars, sorted)
    /\ analyzedBars' = historicalBars
    /\ analyzedSeries' = sorted
    /\ UNCHANGED <<historicalBars, currentPrice, volume, fundamentals, finnhub,
                   canslimScore, receivedBars, scoredSeries, pc, attempted,
                   now, requests>>

Next == CalculateScore \/ CalculateScoreWithFinnhub \/ AnalyzeStage

\* nothing has been computed yet
\* the three calls of AlphaVantageService.getFundamentals
Calls == {"EARNINGS", "OVERVIEW", "INCOME_STATEMENT"}

\* one call: not made, waiting in rateLimit() until the time due, its request
\* issued at the time issuedAt, or completed
Request(state, due, issuedAt) == [state |-> state, due |-> due, issuedAt |-> issuedAt]

\* getFundamentals has not been called
NoRequests == [call \in Calls |-> Request("idle", 0, 0)]

Fresh ==
  /\ canslimScore = NoResult
  /\ weinsteinAnalysis = NoResult
  /\ analyzedBars = << >>
  /\ receivedBars = historicalBars
  /\ scoredSeries = << >>
  /\ analyzedSeries = << >>
  /\ pc = "returned"
  /\ attempted = << >>
  /\ now = 0
  /\ requests = NoRequests

-----------------------------------------------------------------------------
(* Short series of arbitrary bar-like records                              *)

MaxLen == 4

\* an up-day, a down-day, a bar with only a close, a bar whose close is
\* zero (and whose volume is negative), a bar without a close, a null entry
BarPool ==
  { Bar(1000, 1050, 990, 1040, 500, 0),
    Bar(1100, 1120, 1000, 1010, 900, 0),
    Bar(NaN, NaN, NaN, 1020, NaN, 0),
    Bar(1000, 1010, 990, 0, -100, 0),
    NullBar }

\* the timestamps of a response: none, or newest first
Stamped(bars, order) ==
  [i \in 1..Len(bars) |->
     IF bars[i].nul \/ order = "none" THEN bars[i]
     ELSE [bars[i] EXCEPT !.t = Len(bars) + 1 - i]]

ShortSeries ==
  { Stamped(bars, order) :
      bars \in UNION {[1..n -> BarPool] : n \in 0..MaxLen},
      order \in {"none", "newest first"} }

\* a response of the data layer: no fundamentals at all, Alpha Vantage only,
\* Finnhub with metrics it reports as null, Finnhub with usable metrics
Snapshot(fund, fh) == [fundamentals |-> fund, finnhub |-> fh]

ShortSnapshots ==
  { Snapshot(NoFundamentals, NoFinnhub),
    Snapshot(Fundamentals(Earnings(<<125, 100>>, <<NonNumeric, 100>>), Overview(30000000)),
             NoFinnhub),
    Snapshot(Fundamentals(NoEarnings, Overview(NonNumeric)),
             Finnhub(Profile(Null), Financials([NoMetric EXCEPT !.epsGrowth3Y = Null]), << >>)),
    Snapshot(NoFundamentals,
             Finnhub(NoProfile,
                     Financials([NoMetric EXCEPT !.epsGrowthQuarterlyYoy = 2500,
                                                 !.epsGrowth5Y = 1000]),
                     << >>)) }

Init ==
  /\ historicalBars \in ShortSeries
  /\ currentPrice \in {900, 1040}
  /\ volume = 800
  /\ \E snapshot \in ShortSnapshots :
       /\ fundamentals = snapshot.fundamentals
       /\ finnhub = snapshot.finnhub
  /\ Fresh

Spec == Init /\ [][Next]_vars

-----------------------------------------------------------------------------
(* Series of complete bars without timestamps, built from a few shapes     *)

\* close of bar i of n: a line from base with slope drift, with every other
\* inner bar lifted by amp
closeAt(i, n, base, drift, amp) ==
  base + (i - 1) * drift + (IF i % 2 = 0 /\ i < n THEN amp ELSE 0)

\* open of bar i of n, one tick off the close c: below it on an up-day,
\* above it on a down-day
openAt(i, n, c, days) ==
  CASE days = "up" -> c - 1
    [] days = "down" -> c + 1
    [] days = "mostly up" -> IF i % 3 = 0 THEN c + 1 ELSE c - 1
    [] days = "mostly down" -> IF i % 3 = 0 THEN c - 1 ELSE c + 1
    [] days = "up, then down" -> IF 2 * i > n THEN c + 1 ELSE c - 1
    [] days = "down, then up" -> IF 2 * i > n THEN c - 1 ELSE c + 1
    [] OTHER -> c

\* spike: the first bar's high stands far above every close
Series(n, base, drift, amp, days, spike) ==
  [i \in 1..n |->
     LET c == closeAt(i, n, base, drift, amp)
         o == openAt(i, n, c, days)
     IN Bar(o, Max(o, c) + (IF spike /\ i = 1 THEN 1000 ELSE 0), Min(o, c), c, 100, 0)]

\* the bars came without fundamentals
PriceDataOnly ==
  /\ volume = 100
  /\ fundamentals = NoFundamentals
  /\ finnhub = NoFinnhub

MinStageLen == 5
MaxStageLen == 11

InitStage ==
  /\ \E n \in MinStageLen..MaxStageLen, drift \in {-50, -3, 0, 3, 50}, amp \in {0, 400},
        days \in {"up", "down", "mostly up", "mostly down", "flat"}, spike \in BOOLEAN :
       /\ historicalBars = Series(n, 1000, drift, amp, days, spike)
       /\ currentPrice \in {closeAt(n, n, 1000, drift, amp), 700, 1500}
  /\ PriceDataOnly
  /\ Fresh

SpecStage == InitStage /\ [][Next]_vars

\* series long enough to fill the trend window, up to the full 30-week window
LongLen == 30
FullWindow == 150

\* rising series start at the level, falling ones end at it
InitLong ==
  /\ \E n \in {MinStageLen - 1, MinStageLen, LongLen, LongLen + 1, FullWindow - 1, FullWindow,
                  FullWindow + 1},
        level \in {1000, 3000}, drift \in {-10, -1, 1, 10},
        days \in {"up", "down", "mostly up", "mostly down",
                  "up, then down", "down, then up"} :
       /\ historicalBars = Series(n, IF drift < 0 THEN level - (n - 1) * drift ELSE level,
                                  drift, 0, days, FALSE)
       /\ currentPrice = historicalBars[n].c
  /\ PriceDataOnly
  /\ Fresh

SpecLong == InitLong /\ [][Next]_vars

-----------------------------------------------------------------------------
(* Fundamentals of every shape on a few complete series                    *)

\* the two most recent reportedEPS figures, newest first
EpsPool ==
  { << >>, <<125, 100>>, <<12499, 10000>>, <<50, 100>>, <<NonNumeric, 100>> }

AlphaVantagePool ==
  {NoFundamentals} \cup
  { Fundamentals(earnings, overview) :
      earnings \in {NoEarnings} \cup {Earnings(q, a) : q \in EpsPool, a \in EpsPool},
      overview \in {NoOverview, Overview(0), Overview(30000000), Overview(600000000)} }

\* Finnhub responses that differ in the earnings metrics
EarningsMetrics ==
  { Finnhub(NoProfile,
            Financials([NoMetric EXCEPT !.epsGrowthQuarterlyYoy = quarterly,
                                        !.epsGrowth3Y = annual]),
            earnings) :
      quarterly \in {Undefined, Null, -100, 2499, 2500, 4000},
      annual \in {Undefined, Null, 2500},
      earnings \in {<< >>, <<150, 100>>} }

\* Finnhub responses that differ in the price metrics and the share count
PriceMetrics ==
  { Finnhub(profile,
            Financials([NoMetric EXCEPT !.high52Week = high,
                                        !.priceRelativeToSP50052Week = relative,
                                        !.priceRelativeToSP5004Week = recent,
                                        !.priceRelativeToSP50013Week = recent,
                                        !.priceReturnDaily52Week = return]),
            << >>) :
      profile \in {NoProfile, Profile(10), Profile(3000)},
      high \in {Undefined, 1340},
      relative \in {Undefined, Null, 3000, -2000},
      recent \in {Undefined, 1200},
      return \in {Undefined, 2500} }

FinnhubPool ==
  {NoFinnhub, Finnhub(Profile(10), NoFinancials, << >>),
   Finnhub(Profile(30), NoFinancials, << >>),
   Finnhub(NoProfile, Financials([NoMetric EXCEPT !.high52Week = 1380]), << >>)}
    \cup EarningsMetrics \cup PriceMetrics

DataSnapshots ==
  { Snapshot(fund, NoFinnhub) : fund \in AlphaVantagePool } \cup
  { Snapshot(fund, fh) :
      fund \in {NoFundamentals,
                Fundamentals(Earnings(<<125, 100>>, <<50, 100>>), Overview(600000000))},
      fh \in FinnhubPool }

\* no bars, one bar, four bars, and two bars of days without any trading
DataSeries ==
  { << >>, Series(1, 1000, 0, 0, "up", FALSE), Series(4, 1000, 110, 0, "mostly up", FALSE),
    [i \in 1..2 |-> [Series(2, 1000, 10, 0, "up", FALSE)[i] EXCEPT !.v = 0]] }

InitData ==
  /\ historicalBars \in DataSeries
  /\ currentPrice \in {1000, 1330}
  /\ volume \in {0, 200}
  /\ \E snapshot \in DataSnapshots :
       /\ fundamentals = snapshot.fundamentals
       /\ finnhub = snapshot.finnhub
  /\ Fresh

SpecData == InitData /\ [][Next]_vars

-----------------------------------------------------------------------------
(* Volatile series in which one bar came with a field missing              *)

Lacks == {"nothing", "open", "high", "low", "volume", "negative volume",
          "all but close", "close", "zero close"}

\* bars, with bar i delivered without the named field
Sparse(bars, i, lacking) ==
  [bars EXCEPT ![i] =
     CASE lacking = "open" -> [@ EXCEPT !.o = NaN]
       [] lacking = "high" -> [@ EXCEPT !.h = NaN]
       [] lacking = "low" -> [@ EXCEPT !.l = NaN]
       [] lacking = "volume" -> [@ EXCEPT !.v = NaN]
       [] lacking = "negative volume" -> [@ EXCEPT !.v = -5]
       [] lacking = "all but close" -> [@ EXCEPT !.o = NaN, !.h = NaN, !.l = NaN, !.v = NaN]
       [] lacking = "close" -> [@ EXCEPT !.c = NaN]
       [] lacking = "zero close" -> [@ EXCEPT !.c = 0]
       [] OTHER -> @]

MaxSparseLen == 6

InitSparse ==
  /\ \E n \in MinStageLen..MaxSparseLen, drift \in {0, 3}, days \in {"up", "mostly up"},
        lacking \in Lacks, order \in {"none", "newest first"} :
       \E i \in 1..n :
         /\ historicalBars = Stamped(Sparse(Series(n, 1000, drift, 400, days, FALSE),
                                            i, lacking), order)
         /\ currentPrice \in {closeAt(n, n, 1000, drift, 400), 1500}
  /\ PriceDataOnly
  /\ Fresh

SpecSparse == InitSparse /\ [][Next]_vars

-----------------------------------------------------------------------------
(* Series whose bars came with timestamps in any order, unparseable or     *)
(* absent                                                                  *)

\* bars with closes 1010, 1020, ..., each an up-day, bar i stamped times[i];
\* bar number dead (if any) came with a close of 0
TimedSeries(times, dead) ==
  [i \in 1..Len(times) |->
     LET c == 1000 + 10 * i
     IN Bar(c - 1, c, c - 1, IF i = dead THEN 0 ELSE c, 100, times[i])]

MaxOrderLen == 3

InitOrder ==
  /\ \/ \E times \in [1..MaxOrderLen -> {0, BadTime, 1, 2, 3}], dead \in 0..MaxOrderLen :
          historicalBars = TimedSeries(times, dead)
     \/ \E times \in [1..MinStageLen -> {0, 1, 2}] :
          historicalBars = TimedSeries(times, 0)
     \/ \E times \in [1..MinStageLen -> {BadTime}] \cup [1..MinStageLen -> {BadTime, 2}] :
          /\ consistentComparator(TimedSeries(times, 0))
          /\ historicalBars = TimedSeries(times, 0)
  /\ currentPrice = 1000 + 10 * Len(historicalBars)
  /\ PriceDataOnly
  /\ Fresh

SpecOrder == InitOrder /\ [][Next]_vars

\* every bar carries a time that parses, and no two bars carry the same time
timed(bars) ==
  /\ \A i \in 1..Len(bars) :
       ~bars[i].nul /\ bars[i].t # 0 /\ ~isNaN(getTime(bars[i].t))
  /\ \A i, j \in 1..Len(bars) : i # j => bars[i].t # bars[j].t

\* the bars of MinStageLen days in time order or with two of them exchanged,
\* and the bars of MaxOrderLen days, of which one may have no price, in
\* every order
InitPermuted ==
  /\ \/ \E i, j \in 1..MinStageLen :
          /\ i <= j
          /\ historicalBars =
               LET series == TimedSeries([k \in 1..MinStageLen |-> k], 0)
               IN [k \in 1..MinStageLen |->
                     IF k = i THEN series[j] ELSE IF k = j THEN series[i] ELSE series[k]]
     \/ \E dead \in 0..MaxOrderLen :
          \E series \in Arrangements(TimedSeries([i \in 1..MaxOrderLen |-> i], dead)) :
            historicalBars = series
  /\ currentPrice = 1000 + 10 * Len(historicalBars)
  /\ PriceDataOnly
  /\ Fresh

SpecPermuted == InitPermuted /\ [][Next]_vars

-----------------------------------------------------------------------------
(* The data layer: AlpacaService.getMarketData and the two fundamentals    *)
(* providers.  A provider call meets one response of the network.          *)

\* a response: "ok" with its payload, or one of the ways a call goes wrong
Response(kind, data) == [kind |-> kind, data |-> data]

\* what a call hands to its caller: a value, or an exception
Returned(value) == [raised |-> FALSE, value |-> value]
Raised == [raised |-> TRUE, value |-> [present |-> FALSE]]

\* this.client.get(...) rejects: no answer, the 10 s timeout, an error status
rejects(response) == response.kind \in {"network error", "timeout", "error status"}

\* AlphaVantageService.getEarnings: null on a rejected request, on a
\* response without data (reading response.data.Note raises, and is caught),
\* on a Note or Information notice, and on data without earnings
alphaVantageGetEarnings(response) ==
  IF rejects(response) \/ response.kind = "empty" THEN Returned(NoEarnings)
  ELSE IF response.kind \in {"rate limit", "information"} THEN Returned(NoEarnings)
  ELSE IF response.kind = "malformed" THEN Returned(NoEarnings)
  ELSE Returned(response.data)

getOverview(response) ==
  IF rejects(response) \/ response.kind = "empty" THEN Returned(NoOverview)
  ELSE IF response.kind \in {"rate limit", "information"} THEN Returned(NoOverview)
  ELSE IF response.kind = "malformed" THEN Returned(NoOverview)
  ELSE Returned(response.data)

getIncomeStatement(response) ==
  IF rejects(response) \/ response.kind = "empty" THEN Returned([present |-> FALSE])
  ELSE IF response.kind \in {"rate limit", "information"} THEN Returned([present |-> FALSE])
  ELSE IF response.kind = "malformed" THEN Returned([present |-> FALSE])
  ELSE Returned([present |-> TRUE])

\* Promise.all of calls: rejects as soon as one of them does
anyRaised(results) == \E k \in DOMAIN results : results[k].raised

\* AlphaVantageService.getFundamentals
alphaVantageGetFundamentals(earningsResponse, overviewResponse, incomeResponse) ==
  LET earnings == alphaVantageGetEarnings(earningsResponse)
      overview == getOverview(overviewResponse)
      incomeStatement == getIncomeStatement(incomeResponse)
  IN IF anyRaised(<<earnings, overview, incomeStatement>>) THEN Raised
     ELSE Returned([earnings |-> earnings.value, overview |-> overview.value,
                    incomeStatement |-> incomeStatement.value])

\* variant of getCompanyProfile: the request is not inside a try block
getCompanyProfileUncaught(response) ==
  IF rejects(response) THEN Raised
  ELSE IF response.kind \in {"empty", "malformed"} THEN Returned(NoProfile)
  ELSE Returned(response.data)

\* FinnhubService.getCompanyProfile: null on a rejected request, on a
\* response without data and on data without a name
getCompanyProfile(response) ==
  IF rejects(response) THEN Returned(NoProfile)
  ELSE IF response.kind \in {"empty", "malformed"} THEN Returned(NoProfile)
  ELSE Returned(response.data)

getBasicFinancials(response) ==
  IF rejects(response) THEN Returned(NoFinancials)
  ELSE IF response.kind \in {"empty", "malformed"} THEN Returned(NoFinancials)
  ELSE Returned(response.data)

\* FinnhubService.getEarnings: null unless the data is a non-empty array
finnhubGetEarnings(response) ==
  IF rejects(response) THEN Returned(<< >>)
  ELSE IF response.kind \in {"empty", "malformed"} THEN Returned(<< >>)
  ELSE Returned(response.data)

\* FinnhubService.getFundamentals
finnhubGetFundamentals(profileResponse, financialsResponse, earningsResponse) ==
  LET profile == getCompanyProfile(profileResponse)
      financials == getBasicFinancials(financialsResponse)
      earnings == finnhubGetEarnings(earningsResponse)
  IN IF anyRaised(<<profile, financials, earnings>>) THEN Raised
     ELSE Returned(Finnhub(profile.value, financials.value, earnings.value))

\* the fundamentals of getMarketData's result; configured: the Alpha Vantage
\* service exists (an API key is set)
marketDataFundamentals(configured, fundamentalData) ==
  IF ~configured THEN NoFundamentals
  ELSE IF fundamentalData.raised THEN NoFundamentals
  ELSE LET data == fundamentalData.value
       IN IF data.earnings.present \/ data.overview.present \/ data.incomeStatement.present
          THEN Fundamentals(data.earnings, data.overview)
          ELSE NoFundamentals

\* one line of the log of provider calls, with what the caller of the call
\* saw of it: data, null, or an exception
Attempt(provider, call, result, hasData) ==
  [provider |-> provider, call |-> call,
   outcome |-> IF result.raised THEN "raised" ELSE IF hasData THEN "data" ELSE "none"]

AlphaVantageFailures ==
  {"network error", "timeout", "error status", "rate limit", "information", "empty",
   "malformed"}

FinnhubFailures == {"network error", "timeout", "error status", "empty", "malformed"}

Responses(failures, payloads) ==
  {Response(kind, [present |-> FALSE]) : kind \in failures}
    \cup {Response("ok", data) : data \in payloads}

\* the price data of a symbol: no bars at all, one bar, four bars
FetchedSeries ==
  { << >>, Series(1, 1000, 0, 0, "up", FALSE), Series(4, 1000, 110, 0, "mostly up", FALSE) }

\* getMarketData, first half: the bars, the quote and today's bar; a failed
\* request leaves fewer bars or none
GetMarketDataPrices ==
  /\ pc = "idle"
  /\ historicalBars' \in FetchedSeries
  /\ receivedBars' = historicalBars'
  /\ pc' = "fundamentals"
  /\ UNCHANGED <<currentPrice, volume, fundamentals, finnhub, canslimScore,
                 weinsteinAnalysis, analyzedBars, scoredSeries, analyzedSeries, attempted,
                 now, requests>>

\* getMarketData, second half: the fundamentals, from Alpha Vantage
GetMarketDataFundamentals ==
  /\ pc = "fundamentals"
  /\ \E configured \in BOOLEAN,
        earningsResponse \in Responses(AlphaVantageFailures,
                                       {Earnings(<<125, 100>>, <<50, 100>>)}),
        overviewResponse \in Responses(AlphaVantageFailures, {Overview(30000000)}),
        incomeResponse \in Responses(AlphaVantageFailures, {[present |-> TRUE]}) :
       LET fundamentalData == alphaVantageGetFundamentals(earningsResponse,
                                                          overviewResponse, incomeResponse)
           earnings == alphaVantageGetEarnings(earningsResponse)
           overview == getOverview(overviewResponse)
           incomeStatement == getIncomeStatement(incomeResponse)
       IN /\ fundamentals' = marketDataFundamentals(configured, fundamentalData)
          /\ attempted' =
               IF ~configured THEN attempted
               ELSE attempted \o
                    << Attempt("alphaVantage", "getEarnings", earnings,
                               earnings.value.present),
                       Attempt("alphaVantage", "getOverview", overview,
                               overview.value.present),
                       Attempt("alphaVantage", "getIncomeStatement", incomeStatement,
                               incomeStatement.value.present) >>
  /\ pc' = "returned"
  /\ UNCHANGED <<historicalBars, currentPrice, volume, finnhub, canslimScore,
                 weinsteinAnalysis, analyzedBars, receivedBars, scoredSeries,
                 analyzedSeries, now, requests>>

MaxFinnhubCalls == 1

\* FinnhubService.getFundamentals, called for the symbol
FinnhubGetFundamentals ==
  /\ Cardinality({k \in 1..Len(attempted) :
                    attempted[k].provider = "finnhub"
                      /\ attempted[k].call = "getCompanyProfile"}) < MaxFinnhubCalls
  /\ \E profileResponse \in Responses(FinnhubFailures, {Profile(10)}),
        financialsResponse \in
          Responses(FinnhubFailures,
                    {Financials([NoMetric EXCEPT !.epsGrowthQuarterlyYoy = 2500])}),
        earningsResponse \in {Response(kind, << >>) : kind \in FinnhubFailures}
                               \cup {Response("ok", <<150, 100>>)} :
       LET result == finnhubGetFundamentals(profileResponse, financialsResponse,
                                            earningsResponse)
           profile == getCompanyProfile(profileResponse)
           financials == getBasicFinancials(financialsResponse)
           earnings == finnhubGetEarnings(earningsResponse)
       IN /\ finnhub' = IF result.raised THEN finnhub ELSE result.value
          /\ attempted' = attempted \o
               << Attempt("finnhub", "getCompanyProfile", profile,
                          ~profile.raised /\ profile.value.present),
                  Attempt("finnhub", "getBasicFinancials", financials,
                          ~financials.raised /\ financials.value.present),
                  Attempt("finnhub", "getEarnings", earnings,
                          ~earnings.raised /\ earnings.value # << >>) >>
  /\ UNCHANGED <<historicalBars, currentPrice, volume, fundamentals, canslimScore,
                 weinsteinAnalysis, analyzedBars, receivedBars, scoredSeries,
                 analyzedSeries, pc, now, requests>>

\* StockDisplay computes on the market data once getMarketData has returned
Display == pc = "returned" /\ Next

NextFetch ==
  GetMarketDataPrices \/ GetMarketDataFundamentals \/ FinnhubGetFundamentals \/ Display

InitFetch ==
  /\ pc = "idle"
  /\ attempted = << >>
  /\ historicalBars = << >>
  /\ receivedBars = << >>
  /\ currentPrice = 1330
  /\ volume = 100
  /\ fundamentals = NoFundamentals
  /\ finnhub = NoFinnhub
  /\ canslimScore = NoResult
  /\ weinsteinAnalysis = NoResult
  /\ analyzedBars = << >>
  /\ scoredSeries = << >>
  /\ analyzedSeries = << >>
  /\ now = 0
  /\ requests = NoRequests

SpecFetch == InitFetch /\ [][NextFetch]_vars

-----------------------------------------------------------------------------
(* AlphaVantageService.getFundamentals in time: three calls started by     *)
(* Promise.all, each waiting in rateLimit() before it issues its request.  *)

\* setTimeout(resolve, 12000), in seconds
RateLimitDelay == 12

MaxNow == 14

\* getFundamentals(symbol): Promise.all calls getEarnings, getOverview and
\* getIncomeStatement one after the other without awaiting any; each runs to
\* its await this.rateLimit(), which sets its own timer
GetFundamentals ==
  /\ requests = NoRequests
  /\ requests' = [call \in Calls |-> Request("delay", now + RateLimitDelay, 0)]
  /\ UNCHANGED <<historicalBars, currentPrice, volume, fundamentals, finnhub, canslimScore,
                 weinsteinAnalysis, analyzedBars, receivedBars, scoredSeries,
                 analyzedSeries, pc, attempted, now>>

\* the timer of a call fires, no earlier than it is due, and the call issues
\* its request: this.client.get(...)
IssueRequest(call) ==
  /\ requests[call].state = "delay"
  /\ now >= requests[call].due
  /\ requests' = [requests EXCEPT ![call] = Request("requested", @.due, now)]
  /\ UNCHANGED <<historicalBars, currentPrice, volume, fundamentals, finnhub, canslimScore,
                 weinsteinAnalysis, analyzedBars, receivedBars, scoredSeries,
                 analyzedSeries, pc, attempted, now>>

\* the request of a call is answered, or fails
CompleteRequest(call) ==
  /\ requests[call].state = "requested"
  /\ requests' = [requests EXCEPT ![call] = Request("done", @.due, @.issuedAt)]
  /\ UNCHANGED <<historicalBars, currentPrice, volume, fundamentals, finnhub, canslimScore,
                 weinsteinAnalysis, analyzedBars, receivedBars, scoredSeries,
                 analyzedSeries, pc, attempted, now>>

\* a second passes
Tick ==
  /\ now < MaxNow
  /\ now' = now + 1
  /\ UNCHANGED <<historicalBars, currentPrice, volume, fundamentals, finnhub, canslimScore,
                 weinsteinAnalysis, analyzedBars, receivedBars, scoredSeries,
                 analyzedSeries, pc, attempted, requests>>

NextRate ==
  \/ GetFundamentals
  \/ \E call \in Calls : IssueRequest(call)
  \/ \E call \in Calls : CompleteRequest(call)
  \/ Tick

InitRate ==
  /\ historicalBars = << >>
  /\ currentPrice = 1000
  /\ PriceDataOnly
  /\ Fresh

SpecRate == InitRate /\ [][NextRate]_vars

-----------------------------------------------------------------------------
(* Properties                                                              *)

\* C1: every result calculateScore returns, the default one included,
\* carries exactly the grade of percentage = totalScore / maxTotalScore x 100:
\* A iff >= 85, B iff in [70, 85), C iff in [55, 70), D iff in [40, 55),
\* F iff below 40; every total gets one of the five grades.
C1_GradeOfPercentage ==
  canslimScore.status = "returned" =>
    LET total == canslimScore.totalScore
        max == canslimScore.maxTotalScore
        grade == canslimScore.overallGrade
        atLeast(k) == total * 100 >= k * max
    IN /\ max > 0
       /\ grade \in {"A", "B", "C", "D", "F"}
       /\ (grade = "A") <=> atLeast(85)
       /\ (grade = "B") <=> (atLeast(70) /\ ~atLeast(85))
       /\ (grade = "C") <=> (atLeast(55) /\ ~atLeast(70))
       /\ (grade = "D") <=> (atLeast(40) /\ ~atLeast(55))
       /\ (grade = "F") <=> ~atLeast(40)

\* a result whose percentage is exactly 40 (34 of 85) and is graded D
C1_OnThreshold ==
  /\ canslimScore.status = "returned"
  /\ canslimScore.totalScore * 100 = 40 * canslimScore.maxTotalScore
  /\ canslimScore.overallGrade = "D"

\* C2: in every result calculateScore returns, totalScore is the sum of the
\* seven factor scores and maxTotalScore is the sum of the seven maxScore
\* values, 15 + 15 + 15 + 10 + 10 + 10 + 10 = 85, whatever path scored a factor.
C2_TotalsAreSums ==
  canslimScore.status = "returned" =>
    LET f == canslimScore.scores IN
    /\ canslimScore.totalScore =
         f.c.score + f.a.score + f.n.score + f.s.score + f.l.score + f.i.score + f.m.score
    /\ canslimScore.maxTotalScore =
         f.c.maxScore + f.a.maxScore + f.n.maxScore + f.s.maxScore
           + f.l.maxScore + f.i.maxScore + f.m.maxScore
    /\ <<f.c.maxScore, f.a.maxScore, f.n.maxScore, f.s.maxScore,
         f.l.maxScore, f.i.maxScore, f.m.maxScore>> = <<15, 15, 15, 10, 10, 10, 10>>
    /\ canslimScore.maxTotalScore = 85

\* a result that mixes the paths: quarterly earnings from Finnhub, the share
\* count from Alpha Vantage, factors without data at 0
C2_MixedPaths ==
  /\ canslimScore.status = "returned"
  /\ finnhub.present /\ finnhub.financials.present /\ ~finnhub.profile.present
  /\ fundamentals.present /\ fundamentals.overview.present
  /\ canslimScore.scores.c.score = 15
  /\ canslimScore.scores.s.score = 3
  /\ canslimScore.scores.i.score = 0
  /\ canslimScore.totalScore >= 18

\* C3 (as stated): calculateScore and analyzeStage never raise; every call
\* returns a complete result record, whatever the bars and the fundamentals.
C3_NeverRaises ==
  /\ canslimScore.status \in {"none", "returned"}
  /\ weinsteinAnalysis.status \in {"none", "returned"}

\* C4: when the bar series is empty or no bar has a close that is a number
\* above 0, calculateScore returns grade F, totalScore 0 and seven factor
\* descriptions saying that no data is available, and analyzeStage returns
\* stage 1 named "Insufficient Data" with moving average 0 and priceVsMA 0.
C4_NoUsableBars ==
  LET unusable(bars) ==
        \A i \in 1..Len(bars) : bars[i].nul \/ isNaN(bars[i].c) \/ bars[i].c <= 0
      noData == {"No historical data available", "No valid price data available"}
  IN /\ (canslimScore.status # "none" /\ unusable(historicalBars)) =>
          /\ canslimScore.status = "returned"
          /\ canslimScore.overallGrade = "F"
          /\ canslimScore.totalScore = 0
          /\ \A f \in FactorNames :
               /\ canslimScore.scores[f].description \in noData
               /\ canslimScore.scores[f].score = 0
     /\ (weinsteinAnalysis.status # "none" /\ unusable(analyzedBars)) =>
          /\ weinsteinAnalysis.status = "returned"
          /\ weinsteinAnalysis.stage = 1
          /\ weinsteinAnalysis.stageName = "Insufficient Data"
          /\ weinsteinAnalysis.thirtyWeekMA.n = 0
          /\ weinsteinAnalysis.priceVsMA.n = 0

\* both operations have run on a series of several bars none of which has a
\* usable close
C4_AllBarsDropped ==
  /\ Len(historicalBars) >= 2
  /\ \A i \in 1..Len(historicalBars) :
       historicalBars[i].nul \/ isNaN(historicalBars[i].c) \/ historicalBars[i].c <= 0
  /\ \E i \in 1..Len(historicalBars) : ~historicalBars[i].nul
  /\ analyzedBars = historicalBars
  /\ canslimScore.status = "returned"
  /\ weinsteinAnalysis.status = "returned"

\* C5: with 5 or more usable bars (each carrying every field) the stage is
\* the first match of: Stage 2 iff priceVsMA > 0, trend > 2% and up-days >
\* 1.2 x down-days; Stage 4 iff priceVsMA < 0, trend < -2% and down-days >
\* 1.2 x up-days; Stage 3 iff volatility is High, priceVsMA > -5%, the price
\* is at least 95% of the highest high and -3% < trend < 3%; else Stage 1.
\* Days, trend and highest high are taken over the trailing min(30, n) bars;
\* the moving average (trailing min(150, n) closes) and the trend are 0
\* below 10 bars.  Where Stage 2 and Stage 3 both match, the stage is 2.
C5_OrderedStageRules ==
  LET usable(b) == ~b.nul /\ ~isNaN(b.c) /\ b.c > 0
      bars == SelectSeq(analyzedBars, usable)
      n == Len(bars)
  IN (weinsteinAnalysis.status = "returned" /\ n >= 5) =>
       LET price == weinsteinAnalysis.currentPrice
           averaged == SubSeq(bars, Max(1, n - 149), n)
           sum == SumOver(closes(averaged))
           count == Len(averaged)
           hasAverage == n >= 10
           window == SubSeq(bars, Max(1, n - 29), n)
           hasTrend == Len(window) >= 10
           start == window[1].c
           move == (window[Len(window)].c - start) * 100
           up == Cardinality({i \in 1..Len(window) : window[i].c > window[i].o})
           down == Cardinality({i \in 1..Len(window) : window[i].c < window[i].o})
           nearHigh == \A i \in 1..Len(window) : price * 100 >= 95 * window[i].h
           advancing == /\ hasAverage /\ price * count > sum
                        /\ hasTrend /\ move > 2 * start
                        /\ up * 10 > down * 12
           declining == /\ hasAverage /\ price * count < sum
                        /\ hasTrend /\ move < -2 * start
                        /\ down * 10 > up * 12
           distributing == /\ weinsteinAnalysis.volatility = "High"
                           /\ (hasAverage => (price * count - sum) * 100 > -5 * sum)
                           /\ nearHigh
                           /\ (hasTrend => (move < 3 * start /\ move > -3 * start))
       IN weinsteinAnalysis.stage =
            IF advancing THEN 2
            ELSE IF declining THEN 4
            ELSE IF distributing THEN 3
            ELSE 1

\* a series on which both the Stage 2 and the Stage 3 conditions hold: price
\* above the average, trend between 2% and 3%, only up-days, High volatility,
\* price above every high; its stage is 2
C5_AdvanceBeforeDistribution ==
  /\ weinsteinAnalysis.status = "returned"
  /\ weinsteinAnalysis.stage = 2
  /\ weinsteinAnalysis.volatility = "High"
  /\ FGt(weinsteinAnalysis.priceVsMA, 0)
  /\ Len(analyzedBars) \in 10..30
  /\ LET start == analyzedBars[1].c
         move == (analyzedBars[Len(analyzedBars)].c - start) * 100
     IN move > 2 * start /\ move < 3 * start
  /\ \A i \in 1..Len(analyzedBars) :
       /\ analyzedBars[i].c > analyzedBars[i].o
       /\ weinsteinAnalysis.currentPrice * 100 >= 95 * analyzedBars[i].h

\* C6 (as stated): every series of 30 or more bars with strictly increasing
\* closes in which up-days dominate down-days (more than 1.2 to 1), analyzed
\* at its last close, is Stage 2.
C6_RisingSeriesIsStage2 ==
  LET n == Len(analyzedBars)
      up == Cardinality({i \in 1..n : analyzedBars[i].c > analyzedBars[i].o})
      down == Cardinality({i \in 1..n : analyzedBars[i].c < analyzedBars[i].o})
  IN ( /\ weinsteinAnalysis.status = "returned"
       /\ n >= 30
       /\ \A i \in 1..(n - 1) : analyzedBars[i].c < analyzedBars[i + 1].c
       /\ up * 10 > down * 12
       /\ weinsteinAnalysis.currentPrice = analyzedBars[n].c )
     => weinsteinAnalysis.stage = 2

\* C6 (amended): a series of 30 or more bars with strictly increasing closes,
\* analyzed at its last close, is Stage 2 provided that over its trailing 30
\* bars the close rose by more than 2% and up-days exceed 1.2 x down-days.
C6_RisingSeriesWithTrend ==
  LET n == Len(analyzedBars)
      window == (n - 29)..n
      up == Cardinality({i \in window : analyzedBars[i].c > analyzedBars[i].o})
      down == Cardinality({i \in window : analyzedBars[i].c < analyzedBars[i].o})
  IN ( /\ weinsteinAnalysis.status = "returned"
       /\ n >= 30
       /\ \A i \in 1..(n - 1) : analyzedBars[i].c < analyzedBars[i + 1].c
       /\ up * 10 > down * 12
       /\ (analyzedBars[n].c - analyzedBars[n - 29].c) * 100 > 2 * analyzedBars[n - 29].c
       /\ weinsteinAnalysis.currentPrice = analyzedBars[n].c )
     => weinsteinAnalysis.stage = 2

\* a rising series longer than the trend window, classified Stage 2
C6_RisingStage2 ==
  /\ weinsteinAnalysis.status = "returned"
  /\ weinsteinAnalysis.stage = 2
  /\ Len(analyzedBars) > 30
  /\ \A i \in 1..(Len(analyzedBars) - 1) : analyzedBars[i].c < analyzedBars[i + 1].c
  /\ \E i \in 1..Len(analyzedBars) : analyzedBars[i].c < analyzedBars[i].o
  /\ weinsteinAnalysis.currentPrice = analyzedBars[Len(analyzedBars)].c

\* C7 (as stated): every series of 30 or more bars with strictly decreasing
\* closes in which down-days dominate up-days (more than 1.2 to 1), analyzed
\* at its last close, is Stage 4.
C7_FallingSeriesIsStage4 ==
  LET n == Len(analyzedBars)
      up == Cardinality({i \in 1..n : analyzedBars[i].c > analyzedBars[i].o})
      down == Cardinality({i \in 1..n : analyzedBars[i].c < analyzedBars[i].o})
  IN ( /\ weinsteinAnalysis.status = "returned"
       /\ n >= 30
       /\ \A i \in 1..(n - 1) : analyzedBars[i].c > analyzedBars[i + 1].c
       /\ down * 10 > up * 12
       /\ weinsteinAnalysis.currentPrice = analyzedBars[n].c )
     => weinsteinAnalysis.stage = 4

\* C7 (amended): a series of 30 or more bars with strictly decreasing closes,
\* analyzed at its last close, is Stage 4 provided that over its trailing 30
\* bars the close fell by more than 2% and down-days exceed 1.2 x up-days.
C7_FallingSeriesWithTrend ==
  LET n == Len(analyzedBars)
      window == (n - 29)..n
      up == Cardinality({i \in window : analyzedBars[i].c > analyzedBars[i].o})
      down == Cardinality({i \in window : analyzedBars[i].c < analyzedBars[i].o})
  IN ( /\ weinsteinAnalysis.status = "returned"
       /\ n >= 30
       /\ \A i \in 1..(n - 1) : analyzedBars[i].c > analyzedBars[i + 1].c
       /\ down * 10 > up * 12
       /\ (analyzedBars[n].c - analyzedBars[n - 29].c) * 100 < -2 * analyzedBars[n - 29].c
       /\ weinsteinAnalysis.currentPrice = analyzedBars[n].c )
     => weinsteinAnalysis.stage = 4

\* a falling series longer than the trend window, classified Stage 4
C7_FallingStage4 ==
  /\ weinsteinAnalysis.status = "returned"
  /\ weinsteinAnalysis.stage = 4
  /\ Len(analyzedBars) > 30
  /\ \A i \in 1..(Len(analyzedBars) - 1) : analyzedBars[i].c > analyzedBars[i + 1].c
  /\ \E i \in 1..Len(analyzedBars) : analyzedBars[i].c > analyzedBars[i].o
  /\ weinsteinAnalysis.currentPrice = analyzedBars[Len(analyzedBars)].c

\* C8: with 1 to 4 usable bars analyzeStage returns stage 2 or stage 4 only,
\* named "(Limited Data)": stage 2 exactly when the current price is strictly
\* above the arithmetic mean of the usable closes, stage 4 otherwise; and
\* priceVsMA is (price - mean) / mean x 100.
C8_LimitedData ==
  LET usable(b) == ~b.nul /\ ~isNaN(b.c) /\ b.c > 0
      bars == SelectSeq(analyzedBars, usable)
      k == Len(bars)
      sum == SumOver(closes(bars))
      price == weinsteinAnalysis.currentPrice
  IN (weinsteinAnalysis.status = "returned" /\ k \in 1..4) =>
       /\ weinsteinAnalysis.stage \in {2, 4}
       /\ (weinsteinAnalysis.stage = 2) <=> (price * k > sum)
       /\ weinsteinAnalysis.stageName =
            (IF price * k > sum THEN "Stage 2: Advancing (Limited Data)"
                                ELSE "Stage 4: Declining (Limited Data)")
       /\ weinsteinAnalysis.thirtyWeekMA.n * k = sum * weinsteinAnalysis.thirtyWeekMA.d
       /\ weinsteinAnalysis.priceVsMA.d > 0
       /\ weinsteinAnalysis.priceVsMA.n * sum =
            (price * k - sum) * 100 * weinsteinAnalysis.priceVsMA.d

\* four usable bars among the input, the price above their mean: stage 2
C8_FourBarsAdvancing ==
  /\ weinsteinAnalysis.status = "returned"
  /\ weinsteinAnalysis.stage = 2
  /\ Len(analyzedBars) = 4
  /\ \A i \in 1..4 : ~analyzedBars[i].nul /\ ~isNaN(analyzedBars[i].c) /\ analyzedBars[i].c > 0
  /\ \E i \in 1..4 : isNaN(analyzedBars[i].o)

\* C9 (as stated): the 5 bars with closes 10, 10.5, 11, 11.5, 12, all
\* up-days, no timestamps, at a current price of 12, come out as Stage 2
\* labelled "(Limited Data)" with priceVsMA > 0.
C9_ExampleIsLimitedStage2 ==
  ( /\ weinsteinAnalysis.status = "returned"
    /\ closes(analyzedBars) = <<1000, 1050, 1100, 1150, 1200>>
    /\ \A i \in 1..5 : analyzedBars[i].c > analyzedBars[i].o /\ analyzedBars[i].t = 0
    /\ weinsteinAnalysis.currentPrice = 1200 )
  => /\ weinsteinAnalysis.stage = 2
     /\ weinsteinAnalysis.stageName = "Stage 2: Advancing (Limited Data)"
     /\ FGt(weinsteinAnalysis.priceVsMA, 0)

\* C9 (amended): the same 5 bars at the same price come out as Stage 1
\* labelled "(Estimated)"; with fewer than 10 bars the moving average is 0
\* and so is priceVsMA.
C9_ExampleIsEstimatedStage1 ==
  ( /\ weinsteinAnalysis.status = "returned"
    /\ closes(analyzedBars) = <<1000, 1050, 1100, 1150, 1200>>
    /\ \A i \in 1..5 : analyzedBars[i].c > analyzedBars[i].o /\ analyzedBars[i].t = 0
    /\ weinsteinAnalysis.currentPrice = 1200 )
  => /\ weinsteinAnalysis.stage = 1
     /\ weinsteinAnalysis.stageName = "Stage 1: Accumulation (Estimated)"
     /\ weinsteinAnalysis.thirtyWeekMA.n = 0
     /\ weinsteinAnalysis.priceVsMA.n = 0

\* the example series has been analyzed at a price of 12
C9_ExampleAnalyzed ==
  /\ weinsteinAnalysis.status = "returned"
  /\ closes(analyzedBars) = <<1000, 1050, 1100, 1150, 1200>>
  /\ \A i \in 1..5 : analyzedBars[i].c > analyzedBars[i].o /\ analyzedBars[i].t = 0
  /\ \A i \in 1..5 : analyzedBars[i].h = analyzedBars[i].c
  /\ weinsteinAnalysis.currentPrice = 1200

\* C10 (as stated): the stageName carries "(Estimated)" whenever fewer than
\* 150 usable bars were analyzed, and never with 150 or more.
C10_EstimatedBelow150 ==
  LET usable(b) == ~b.nul /\ ~isNaN(b.c) /\ b.c > 0
      k == Len(SelectSeq(analyzedBars, usable))
      estimated == {"Stage 1: Accumulation (Estimated)", "Stage 2: Advancing (Estimated)",
                    "Stage 3: Distribution (Estimated)", "Stage 4: Declining (Estimated)"}
  IN weinsteinAnalysis.status = "returned" =>
       ((weinsteinAnalysis.stageName \in estimated) <=> (k < 150))

\* C10 (amended): the stageName carries "(Estimated)" exactly when 5 to 149
\* usable bars were analyzed; with 1 to 4 it carries "(Limited Data)", and
\* with 150 or more it is the plain stage name.
C10_EstimatedFrom5To149 ==
  LET usable(b) == ~b.nul /\ ~isNaN(b.c) /\ b.c > 0
      k == Len(SelectSeq(analyzedBars, usable))
      estimated == {"Stage 1: Accumulation (Estimated)", "Stage 2: Advancing (Estimated)",
                    "Stage 3: Distribution (Estimated)", "Stage 4: Declining (Estimated)"}
      limited == {"Stage 2: Advancing (Limited Data)", "Stage 4: Declining (Limited Data)"}
      plain == {"Stage 1: Accumulation", "Stage 2: Advancing",
                "Stage 3: Distribution", "Stage 4: Declining"}
  IN weinsteinAnalysis.status = "returned" =>
       /\ (weinsteinAnalysis.stageName \in estimated) <=> (k >= 5 /\ k < 150)
       /\ (k >= 1 /\ k < 5) => weinsteinAnalysis.stageName \in limited
       /\ k >= 150 => weinsteinAnalysis.stageName \in plain

\* 149 usable bars, one short of the full window, labelled "(Estimated)"
C10_OneShortOfFullWindow ==
  /\ weinsteinAnalysis.status = "returned"
  /\ Len(analyzedBars) = 149
  /\ \A i \in 1..149 : analyzedBars[i].c > 0
  /\ weinsteinAnalysis.stageName = "Stage 2: Advancing (Estimated)"

\* C11 (as stated): the series the scorer and the classifier compute on is
\* exactly the input bars whose close is a number above 0, each with a
\* missing open, high or low replaced by its close and a missing or negative
\* volume replaced by 0; no bar without such a close is in it.  (For the
\* scorer the input is taken as delivered: repairing it again changes
\* nothing.)
C11_NormalizedSeries ==
  LET usable(bar) == ~bar.nul /\ ~isNaN(bar.c) /\ bar.c > 0
      normal(bar) == [bar EXCEPT !.o = IF isNaN(@) THEN bar.c ELSE @,
                                 !.h = IF isNaN(@) THEN bar.c ELSE @,
                                 !.l = IF isNaN(@) THEN bar.c ELSE @,
                                 !.v = IF isNaN(@) \/ @ < 0 THEN 0 ELSE @]
      normalized(input) == LET kept == SelectSeq(input, usable)
                           IN [k \in 1..Len(kept) |-> normal(kept[k])]
      times(x, series) == Cardinality({k \in 1..Len(series) : series[k] = x})
      sameBars(series, other) ==
        /\ Len(series) = Len(other)
        /\ \A k \in 1..Len(series) : times(series[k], series) = times(series[k], other)
  IN /\ canslimScore.status # "none" => sameBars(scoredSeries, normalized(receivedBars))
     /\ weinsteinAnalysis.status # "none" => sameBars(analyzedSeries, normalized(analyzedBars))

\* C12 (as stated): when every usable bar carries a timestamp, the series
\* computed on is an arrangement of the usable bars in which two bars whose
\* times parse stand in ascending order of time, and bars that tie (equal
\* times, or both times unparseable) keep their input order; when a usable
\* bar carries no timestamp, the series is the usable bars in input order.
\* (The classifier orders its series once it has 5 usable bars.)
C12_SortedByTime ==
  LET usable(bar) == ~bar.nul /\ ~isNaN(bar.c) /\ bar.c > 0
      parses(bar) == bar.t # BadTime
      at(kept, bar) == CHOOSE k \in 1..Len(kept) : kept[k] = bar
      ordered(series, input) ==
        LET kept == SelectSeq(input, usable)
        IN IF \E k \in 1..Len(kept) : kept[k].t = 0
           THEN series = kept
           ELSE /\ Len(series) = Len(kept)
                /\ \A k \in 1..Len(kept) : \E i \in 1..Len(series) : series[i] = kept[k]
                /\ \A i, j \in 1..Len(series) :
                     i < j =>
                       LET a == series[i]
                           b == series[j]
                       IN /\ (parses(a) /\ parses(b)) => a.t <= b.t
                          /\ ((parses(a) /\ parses(b) /\ a.t = b.t)
                                \/ (~parses(a) /\ ~parses(b)))
                               => at(kept, a) < at(kept, b)
  IN /\ canslimScore.status # "none" => ordered(scoredSeries, receivedBars)
     /\ (weinsteinAnalysis.status # "none" /\ Len(SelectSeq(analyzedBars, usable)) >= 5)
          => ordered(analyzedSeries, analyzedBars)

\* C13 (as stated): neither operation has a side effect on its input: every
\* step leaves each bar record of the caller's sequence with the open, high,
\* low, close, volume and timestamp it had, and the sequence with its order
\* and length.
C13_InputUntouched == [][historicalBars' = historicalBars]_vars

\* C14 (as stated): every result is a function of the call's own arguments
\* as the data layer delivered them: the analysis analyzeStage returns is the
\* one it returns on the delivered bars, whether or not calculateScore ran on
\* the same bar records before, and likewise the score of calculateScore.
C14_IndependentOfEarlierCalls ==
  /\ weinsteinAnalysis.status # "none" =>
       weinsteinAnalysis = analyzeStage(currentPrice, receivedBars)
  /\ canslimScore.status # "none" =>
       canslimScore \in
         { calculateScore(currentPrice, receivedBars, volume, fundamentals),
           calculateScoreWithFinnhub(currentPrice, receivedBars, volume, fundamentals,
                                     finnhub) }

\* C15 (as stated): the secondary provider (Alpha Vantage) is attempted only
\* after the primary provider (Finnhub) was attempted and yielded neither a
\* profile nor financial metrics; never before it and never instead of it.
C15_PrimaryBeforeSecondary ==
  \A k \in 1..Len(attempted) :
    attempted[k].provider = "alphaVantage" =>
      /\ \E j \in 1..(k - 1) : attempted[j].provider = "finnhub"
      /\ \A j \in 1..Len(attempted) :
           (attempted[j].provider = "finnhub"
              /\ attempted[j].call \in {"getCompanyProfile", "getBasicFinancials"})
             => (j < k /\ attempted[j].outcome # "data")

\* C17: a provider call that fails (network error, timeout, rate-limit
\* notice, empty or malformed response) hands no exception to its caller;
\* getMarketData still returns, with the price data it had, and every part
\* of the fundamentals whose call failed is absent -- the fundamentals as a
\* whole when every call failed.
C17_FailuresAbsorbed ==
  [][ /\ \A k \in 1..Len(attempted') : attempted'[k].outcome # "raised"
      /\ (pc = "fundamentals" /\ pc' # "fundamentals") =>
           LET made == {k \in (Len(attempted) + 1)..Len(attempted') :
                          attempted'[k].provider = "alphaVantage"}
               failed(call) == \E k \in made : /\ attempted'[k].call = call
                                                /\ attempted'[k].outcome # "data"
           IN /\ pc' = "returned"
              /\ historicalBars' = historicalBars
              /\ receivedBars' = receivedBars
              /\ failed("getEarnings") => fundamentals'.earnings = NoEarnings
              /\ failed("getOverview") => fundamentals'.overview = NoOverview
              /\ (\A k \in made : attempted'[k].outcome # "data")
                   => fundamentals' = NoFundamentals ]_vars

\* getMarketData has returned four bars and no fundamentals after every
\* Alpha Vantage call failed, and every Finnhub call has failed as well
C17_Witness ==
  /\ pc = "returned"
  /\ Len(receivedBars) = 4
  /\ fundamentals = NoFundamentals
  /\ finnhub.present /\ ~finnhub.profile.present /\ ~finnhub.financials.present
  /\ \E k \in 1..Len(attempted) : attempted[k].provider = "alphaVantage"
  /\ \E k \in 1..Len(attempted) : attempted[k].provider = "finnhub"
  /\ \A k \in 1..Len(attempted) : attempted[k].outcome = "none"

\* C16 (as stated): whenever calculateScore is given a primary snapshot with
\* financial metrics, none of the factors C, A, N, S, L, M is computed from
\* secondary data: each scores as it does with no secondary data supplied.
C16_NoFactorFromSecondary ==
  [][ LET primaryOnlyScores ==
            calculateScoreWithFinnhub(currentPrice, historicalBars, volume,
                                      NoFundamentals, finnhub).scores
      IN
      (/\ CalculateScoreWithFinnhub
       /\ finnhub.present /\ finnhub.financials.present
       /\ canslimScore'.status = "returned")
        => \A f \in {"c", "a", "n", "s", "l", "m"} :
             canslimScore'.scores[f] = primaryOnlyScores[f] ]_vars

\* C16 (amended): with the primary financial metrics present, the factors
\* C, A, N, L, M score as they do with no secondary data supplied, and so
\* does S when the primary profile has a share count; only without a primary
\* share count is S scored from the secondary share count.
C16_SecondaryOnlyWherePrimaryLacks ==
  [][ LET primaryOnlyScores ==
            calculateScoreWithFinnhub(currentPrice, historicalBars, volume,
                                      NoFundamentals, finnhub).scores
      IN
      (/\ CalculateScoreWithFinnhub
       /\ finnhub.present /\ finnhub.financials.present
       /\ canslimScore'.status = "returned")
        => /\ \A f \in {"c", "a", "n", "l", "m"} :
                canslimScore'.scores[f] = primaryOnlyScores[f]
           /\ (finnhub.profile.present /\ truthy(finnhub.profile.shareOutstanding))
                => canslimScore'.scores.s = primaryOnlyScores.s
           /\ canslimScore'.scores.s # primaryOnlyScores.s
                => canslimScore'.scores.s =
                     scoreSupplyAndDemandWithData(volume, scoredSeries',
                                                  fundamentals.overview.SharesOutstanding) ]_vars

\* a score computed with both snapshots supplied: the primary one has a
\* quarterly growth of 24.99% and no profile, the secondary one earnings
\* growing 25% and a share count; C is graded on the primary growth, S on the
\* secondary share count
C16_BothSnapshots ==
  /\ canslimScore.status = "returned"
  /\ finnhub.present /\ finnhub.financials.present /\ ~finnhub.profile.present
  /\ finnhub.financials.metric.epsGrowthQuarterlyYoy = 2499
  /\ fundamentals.present /\ fundamentals.earnings.present /\ fundamentals.overview.present
  /\ Len(scoredSeries) = 4
  /\ canslimScore.scores.c =
       scoreCurrentQuarterlyEarningsWithFinnhub(finnhub.financials, finnhub.earnings)
  /\ canslimScore.scores.c # scoreCurrentQuarterlyEarningsWithData(fundamentals.earnings)
  /\ canslimScore.scores.s =
       scoreSupplyAndDemandWithData(volume, scoredSeries,
                                    fundamentals.overview.SharesOutstanding)
  /\ canslimScore.scores.s.score > 0

\* C18 (as stated): whenever calculateScore has no snapshot, or a snapshot
\* from which the quarterly EPS growth cannot be obtained, and at least two
\* usable bars, factor C is the tier of the price change over the trailing
\* min(60, n) bars: >= 25% -> 15, >= 15% -> 12, >= 5% -> 8, >= 0% -> 5,
\* below 0% -> 2.
C18_MomentumProxy ==
  [][ LET n == Len(scoredSeries')
          first == scoredSeries'[n - Min(60, n) + 1].c
          move == (scoredSeries'[n].c - first) * 100
          proxy == IF move >= 25 * first THEN 15
                   ELSE IF move >= 15 * first THEN 12
                   ELSE IF move >= 5 * first THEN 8
                   ELSE IF move >= 0 THEN 5 ELSE 2
          quarters == fundamentals.earnings.quarterlyEarnings
          fromSecondary ==
            /\ fundamentals.present /\ fundamentals.earnings.present
            /\ Len(quarters) >= 2
            /\ quarters[1] # NonNumeric /\ quarters[2] # NonNumeric /\ quarters[2] # 0
          growth == finnhub.financials.metric.epsGrowthQuarterlyYoy
          fromPrimary ==
            /\ finnhub.present /\ finnhub.financials.present
            /\ \/ growth \notin {Undefined, Null, NaN}
               \/ /\ Len(finnhub.earnings) >= 2
                  /\ truthy(finnhub.earnings[1]) /\ truthy(finnhub.earnings[2])
      IN (n >= 2 /\ canslimScore'.status = "returned") =>
           /\ (CalculateScore /\ ~fromSecondary)
                => canslimScore'.scores.c.score = proxy
           /\ (CalculateScoreWithFinnhub /\ ~fromSecondary /\ ~fromPrimary)
                => canslimScore'.scores.c.score = proxy ]_vars

\* C19 (as stated): when factor C is scored from a snapshot, a quarterly EPS
\* growth of 25% or more scores 15 and a growth of at least 15% and below
\* 25% scores 12, whether the growth is the secondary provider's (computed
\* from the two latest quarters) or the primary provider's (the quarterly
\* year-over-year metric, in hundredths of a percent).
C19_GrowthTiers ==
  [][ LET quarters == fundamentals.earnings.quarterlyEarnings
          fromSecondary ==
            /\ fundamentals.present /\ fundamentals.earnings.present
            /\ Len(quarters) >= 2
            /\ quarters[1] # NonNumeric /\ quarters[2] # NonNumeric /\ quarters[2] # 0
          growth == finnhub.financials.metric.epsGrowthQuarterlyYoy
          hasMetric == finnhub.present /\ finnhub.financials.present
          fromPrimary == hasMetric /\ growth \notin {Undefined, Null, NaN}
          score == canslimScore'.scores.c.score
          \* a growth of up / down
          graded(up, down) ==
            /\ up * 100 >= 25 * down => score = 15
            /\ (up * 100 >= 15 * down /\ up * 100 < 25 * down) => score = 12
      IN (Len(scoredSeries') >= 1 /\ canslimScore'.status = "returned") =>
           /\ (CalculateScore /\ fromSecondary)
                => graded(quarters[1] - quarters[2], Abs(quarters[2]))
           /\ (CalculateScoreWithFinnhub /\ ~hasMetric /\ fromSecondary)
                => graded(quarters[1] - quarters[2], Abs(quarters[2]))
           /\ (CalculateScoreWithFinnhub /\ fromPrimary)
                => graded(growth, 10000) ]_vars

\* C20 (as stated): when the share count factor S is scored from is known
\* and below 50 million, S scores 10 of 10 for every volume and every series
\* with a usable bar, whether the count is the secondary provider's (a count
\* of shares) or the primary provider's (in millions of shares).
C20_LowFloat ==
  [][ LET shares == fundamentals.overview.SharesOutstanding
          secondaryKnown ==
            /\ fundamentals.present /\ fundamentals.overview.present
            /\ shares \notin {Undefined, NonNumeric} /\ shares > 0
          millions == finnhub.profile.shareOutstanding
          primaryKnown ==
            /\ finnhub.present /\ finnhub.profile.present
            /\ millions \notin {Undefined, Null, NaN} /\ millions > 0
          score == canslimScore'.scores.s.score
      IN (Len(scoredSeries') >= 1 /\ canslimScore'.status = "returned") =>
           /\ (CalculateScore /\ secondaryKnown /\ shares < 50 * 1000000)
                => score = 10
           /\ (CalculateScoreWithFinnhub /\ ~primaryKnown /\ secondaryKnown
                 /\ shares < 50 * 1000000)
                => score = 10
           /\ (CalculateScoreWithFinnhub /\ primaryKnown /\ millions < 50)
                => score = 10 ]_vars

\* C21: the grade is monotonic in the total score.  The grade of a returned
\* result is at least the grade of every smaller total and at most the grade
\* of every larger total out of the same maximum (A > B > C > D > F), and of
\* two results computed one after the other the one with the larger total
\* has at least the grade of the other.
C21_GradeMonotonic ==
  [][ LET rank(grade) == CASE grade = "A" -> 4 [] grade = "B" -> 3 [] grade = "C" -> 2
                           [] grade = "D" -> 1 [] grade = "F" -> 0
          result == canslimScore'
      IN result.status = "returned" =>
           /\ \A total \in 0..result.maxTotalScore :
                LET other == gradeOf(total, result.maxTotalScore) IN
                /\ total < result.totalScore => rank(other) <= rank(result.overallGrade)
                /\ total > result.totalScore => rank(other) >= rank(result.overallGrade)
           /\ (canslimScore.status = "returned"
                 /\ result.totalScore > canslimScore.totalScore)
                => rank(result.overallGrade) >= rank(canslimScore.overallGrade)
           /\ (canslimScore.status = "returned"
                 /\ result.totalScore < canslimScore.totalScore)
                => rank(result.overallGrade) <= rank(canslimScore.overallGrade) ]_vars

\* a result graded C, with a total between those of lower and of higher grades
C21_MiddleGrade ==
  /\ canslimScore.status = "returned"
  /\ canslimScore.overallGrade = "C"
  /\ canslimScore.totalScore * 100 >= 55 * canslimScore.maxTotalScore
  /\ canslimScore.totalScore * 100 < 70 * canslimScore.maxTotalScore

\* C22 (as stated): for every series of one or more bars whose closes are all
\* the same, analyzeStage reports the volatility of 0 (Low) and the trend of
\* 0 (strength Weak).
C22_FlatSeries ==
  (/\ weinsteinAnalysis.status = "returned"
   /\ Len(analyzedBars) >= 1
   /\ \A i \in 1..Len(analyzedBars) :
        ~analyzedBars[i].nul /\ analyzedBars[i].c = analyzedBars[1].c)
    => /\ weinsteinAnalysis.volatility = "Low"
       /\ weinsteinAnalysis.trendStrength = "Weak"

\* C23 (as stated): the Alpha Vantage service serializes its own calls.  Of
\* the requests of one getFundamentals no two are in flight at the same time,
\* and any two that have been issued were issued at least the per-call delay
\* apart.
C23_SerializedRequests ==
  \A a, b \in Calls :
    a # b =>
      /\ ~(requests[a].state = "requested" /\ requests[b].state = "requested")
      /\ (requests[a].state \in {"requested", "done"}
            /\ requests[b].state \in {"requested", "done"})
           => Abs(requests[a].issuedAt - requests[b].issuedAt) >= RateLimitDelay

\* C24 (as stated): the moving average analyzeStage reports for n usable bars
\* is the arithmetic mean of the closes of the trailing min(150, n) bars when
\* n >= 10 and 0 when n < 10; whenever it is 0, priceVsMA is 0.
C24_MovingAverage ==
  LET series == analyzedSeries
      n == Len(series)
      average == weinsteinAnalysis.thirtyWeekMA
      window == SubSeq(series, n - Min(150, n) + 1, n)
  IN (weinsteinAnalysis.status = "returned" /\ n >= 1) =>
       /\ n >= 10 => average.n * Len(window) = SumOver(closes(window)) * average.d
       /\ n < 10 => average.n = 0
       /\ average.n = 0 => weinsteinAnalysis.priceVsMA.n = 0

\* C24 (amended): with n >= 10 usable bars the moving average is the mean of
\* the closes of the trailing min(150, n) bars and priceVsMA has the sign of
\* the price's distance from it; with 5 to 9 it is 0; with 1 to 4, on the
\* limited-data path, it is the mean of all usable closes; whenever it is 0,
\* priceVsMA is 0.
C24_MovingAverageFrom5 ==
  LET series == analyzedSeries
      n == Len(series)
      average == weinsteinAnalysis.thirtyWeekMA
      window == SubSeq(series, n - Min(150, n) + 1, n)
      sum == SumOver(closes(window))
  IN (weinsteinAnalysis.status = "returned" /\ n >= 1) =>
       /\ average.d > 0 /\ weinsteinAnalysis.priceVsMA.d > 0
       /\ n >= 10 =>
            /\ average.n * Len(window) = sum * average.d
            /\ (weinsteinAnalysis.priceVsMA.n > 0)
                 <=> (weinsteinAnalysis.currentPrice * Len(window) > sum)
            /\ (weinsteinAnalysis.priceVsMA.n < 0)
                 <=> (weinsteinAnalysis.currentPrice * Len(window) < sum)
       /\ n \in 5..9 => average.n = 0
       /\ n \in 1..4 => average.n * n = SumOver(closes(series)) * average.d
       /\ average.n = 0 => weinsteinAnalysis.priceVsMA.n = 0

\* 151 usable bars have been analyzed: the average is taken over the last
\* 150 of them and differs from the mean of all
C24_BeyondTheWindow ==
  /\ weinsteinAnalysis.status = "returned"
  /\ Len(analyzedSeries) = FullWindow + 1
  /\ weinsteinAnalysis.thirtyWeekMA.n * FullWindow =
       SumOver(closes(SubSeq(analyzedSeries, 2, FullWindow + 1)))
         * weinsteinAnalysis.thirtyWeekMA.d
  /\ weinsteinAnalysis.thirtyWeekMA.n * (FullWindow + 1) #
       SumOver(closes(analyzedSeries)) * weinsteinAnalysis.thirtyWeekMA.d

\* C25 (as stated): with two or more usable bars factor N scores 15 whenever
\* the current price is at or within 5% of the high it is measured against:
\* the highest high of the trailing min(60, n) bars, or the 52-week high the
\* primary provider supplied.
C25_NearTheHigh ==
  [][ LET n == Len(scoredSeries')
          window == LastK(scoredSeries', Min(60, n))
          recentHigh == CHOOSE h \in {window[i].h : i \in 1..Len(window)} :
                          \A i \in 1..Len(window) : window[i].h <= h
          hasMetric == finnhub.present /\ finnhub.financials.present
          high52Week == finnhub.financials.metric.high52Week
          score == canslimScore'.scores.n.score
      IN (n >= 2 /\ canslimScore'.status = "returned") =>
           /\ (CalculateScore /\ recentHigh > 0 /\ currentPrice * 100 >= 95 * recentHigh)
                => score = 15
           /\ (CalculateScoreWithFinnhub /\ ~hasMetric /\ recentHigh > 0
                 /\ currentPrice * 100 >= 95 * recentHigh)
                => score = 15
           /\ (CalculateScoreWithFinnhub /\ hasMetric /\ truthy(high52Week)
                 /\ high52Week > 0 /\ currentPrice * 100 >= 95 * high52Week)
                => score = 15 ]_vars

\* C26 (as stated): a zero divisor never decides a score and no numeric field
\* of a returned CANSLIMScore is NaN.  In particular, when factor S is scored
\* from a known share count and the volumes of the trailing min(20, n) bars
\* sum to 0, S is the tier of the share count (below 50 million 10, below 200
\* million 8, below 500 million 6, else 3) without the high-volume boost.
C26_NoBoostOnZeroVolume ==
  [][ LET result == canslimScore'
          n == Len(scoredSeries')
          recentBars == LastK(scoredSeries', Min(20, n))
          shares == fundamentals.overview.SharesOutstanding
          sharesKnown ==
            /\ fundamentals.present /\ fundamentals.overview.present
            /\ shares \notin {Undefined, NonNumeric} /\ shares > 0
          primaryCount ==
            /\ finnhub.present /\ finnhub.profile.present
            /\ truthy(finnhub.profile.shareOutstanding)
          tier == IF shares < 50 * 1000000 THEN 10
                  ELSE IF shares < 200 * 1000000 THEN 8
                  ELSE IF shares < 500 * 1000000 THEN 6 ELSE 3
      IN result.status = "returned" =>
           /\ \A f \in FactorNames :
                ~isNaN(result.scores[f].score) /\ ~isNaN(result.scores[f].maxScore)
           /\ ~isNaN(result.totalScore) /\ ~isNaN(result.maxTotalScore)
           /\ (/\ CalculateScore \/ (CalculateScoreWithFinnhub /\ ~primaryCount)
               /\ sharesKnown
               /\ n >= 2
               /\ SumOver(volumes(recentBars)) = 0)
                => result.scores.s.score = tier ]_vars

\* C27 (as stated): when factor L is scored from n >= 2 usable bars, the
\* series is split into the recent half (the last n div 2 bars) and the
\* earlier bars, and L is 10 iff the recent half's return is above 10% and
\* above the earlier half's return, otherwise 8 if it is above 5%, 6 if above
\* 0%, else 3; it is never the 0 of missing data.
C27_LeaderOrLaggard ==
  [][ LET series == scoredSeries'
          n == Len(series)
          half == Max(1, n \div 2)
          recent == SubSeq(series, n - half + 1, n)
          earlier == SubSeq(series, 1, n - half)
          \* the return of a half, as the fraction up / down
          up(bars) == bars[Len(bars)].c - bars[1].c
          down(bars) == bars[1].c
          hasMetric == finnhub.present /\ finnhub.financials.present
          beatsEarlier == IF Len(earlier) >= 2
                          THEN up(recent) * down(earlier) > up(earlier) * down(recent)
                          ELSE up(recent) > 0
          expected == IF up(recent) * 100 > 10 * down(recent) /\ beatsEarlier THEN 10
                      ELSE IF up(recent) * 100 > 5 * down(recent) THEN 8
                      ELSE IF up(recent) > 0 THEN 6 ELSE 3
      IN (/\ canslimScore'.status = "returned"
          /\ n >= 2
          /\ CalculateScore \/ (CalculateScoreWithFinnhub /\ ~hasMetric))
           => /\ canslimScore'.scores.l.score = expected
              /\ canslimScore'.scores.l.score > 0 ]_vars

\* C28: in every result calculateScore returns, each factor's score lies
\* between 0 and its maxScore, and maxScore is 15 for C, A, N and 10 for
\* S, L, I, M, whichever path scored the factor.
C28_ScoresWithinBounds ==
  canslimScore.status = "returned" =>
    \A f \in FactorNames :
      /\ canslimScore.scores[f].score >= 0
      /\ canslimScore.scores[f].score <= canslimScore.scores[f].maxScore
      /\ canslimScore.scores[f].maxScore = (IF f \in {"c", "a", "n"} THEN 15 ELSE 10)

\* a low float with high volume: the boost on top of the tier's 10 is capped,
\* and factor S is 10
C28_BoostCapped ==
  /\ canslimScore.status = "returned"
  /\ fundamentals.present /\ fundamentals.overview.present
  /\ fundamentals.overview.SharesOutstanding = 30000000
  /\ canslimScore.scores.s =
       Factor(10, 10, "Excellent: shares outstanding (low float), strong volume activity")

\* C29: with 5 to 9 usable bars analyzeStage reports a moving average of 0, a
\* priceVsMA of 0 and a Weak trend, and the stage is 1 or 3, whatever the
\* current price; a stage of 2 or 4 comes only from 1 to 4 usable bars or
\* from 10 or more.
C29_NoTrendBelow10 ==
  LET usable(b) == ~b.nul /\ ~isNaN(b.c) /\ b.c > 0
      k == Len(SelectSeq(analyzedBars, usable))
  IN weinsteinAnalysis.status = "returned" =>
       /\ k \in 5..9 =>
            /\ weinsteinAnalysis.thirtyWeekMA.n = 0
            /\ weinsteinAnalysis.priceVsMA.n = 0
            /\ weinsteinAnalysis.trendStrength = "Weak"
            /\ weinsteinAnalysis.stage \in {1, 3}
       /\ weinsteinAnalysis.stage \in {2, 4} => (k \in 1..4 \/ k >= 10)

\* five to nine usable bars of High volatility, analyzed at a price near
\* their high: the stage is 3, with neither a moving average nor a trend
C29_FewBarsNearHigh ==
  LET usable(b) == ~b.nul /\ ~isNaN(b.c) /\ b.c > 0
  IN /\ weinsteinAnalysis.status = "returned"
     /\ Len(SelectSeq(analyzedBars, usable)) \in 5..9
     /\ weinsteinAnalysis.volatility = "High"
     /\ weinsteinAnalysis.thirtyWeekMA.n = 0
     /\ weinsteinAnalysis.stage = 3

\* C30: when every input bar carries a timestamp that parses and the
\* timestamps are all distinct, calculateScore, calculateScoreWithFinnhub and
\* analyzeStage (on 5 or more usable bars) return, for every arrangement of
\* the input bars, the result they return for the bars as given.
C30_OrderInvariant ==
  [][timed(historicalBars) =>
       /\ CalculateScore =>
            \A p \in Arrangements(historicalBars) :
              calculateScore(currentPrice, p, volume, fundamentals) = canslimScore'
       /\ CalculateScoreWithFinnhub =>
            \A p \in Arrangements(historicalBars) :
              calculateScoreWithFinnhub(currentPrice, p, volume, fundamentals, finnhub)
                = canslimScore'
       /\ (AnalyzeStage /\ Len(stageValidBars(historicalBars)) >= 5) =>
            \A p \in Arrangements(historicalBars) :
              analyzeStage(currentPrice, p) = weinsteinAnalysis']_vars

\* five bars with distinct times handed over out of order and put in order
\* by both analyses
C30_SortedOutOfOrder ==
  /\ canslimScore.status = "returned"
  /\ weinsteinAnalysis.status = "returned"
  /\ timed(analyzedBars)
  /\ Len(stageValidBars(analyzedBars)) >= 5
  /\ analyzedSeries # analyzedBars
  /\ scoredSeries = analyzedSeries


====
